---- MODULE Spec2Model ----
(***************************************************************************)
(* SignalHub incremental pipeline: fetch_ohlc -> compute_signals ->        *)
(* compute_ema_trend -> populate_strategy_9_30_ema, coordinated by the     *)
(* pipeline orchestrator over the processing_state checkpoint table.       *)
(*                                                                         *)
(* Instants are whole minutes of UTC time; minute 0 is a Monday 00:00 UTC. *)
(* A stored timestamp, a checkpoint and the wall clock are all instants.   *)
(***************************************************************************)
EXTENDS Integers, Sequences, FiniteSets, TLC

VARIABLES now, ohlc_data, signals, ema_trend, strategy, processing_state,
          lastRun

vars == <<now, ohlc_data, signals, ema_trend, strategy, processing_state,
          lastRun>>

(***************************************************************************)
(* Bounds.  The retention sizes, the chunk size and the EMA periods of the *)
(* code (210, 50, 100, 9, 30) are scaled down; the code's comparisons are  *)
(* kept as they are.                                                       *)
(***************************************************************************)
NCandles == 4
MaxSignals == 2
ChunkSize == 2
ShortPeriod == 2
LongPeriod == ShortPeriod + 1

Stocks == {1}
Intervals == <<"5", "60">>
IntervalSet == {Intervals[i] : i \in 1..Len(Intervals)}
Pairs == {<<s, tf>> : s \in Stocks, tf \in IntervalSet}

\* indicators table: id -> period of the active EMA indicators
Ema9Id == 1
Ema30Id == 2
IndicatorIds == <<Ema9Id, Ema30Id>>
PeriodOf(id) == IF id = Ema9Id THEN ShortPeriod ELSE LongPeriod

(***************************************************************************)
(* Time base                                                               *)
(***************************************************************************)
Epoch1970 == 0
\* JavaScript null
Null == -1
IstOffset == 330
MinutesPerDay == 1440
OpenMinutes == 9 * 60 + 15
CloseMinutes == 15 * 60 + 30

Ist(t) == t + IstOffset
IstDay(t) == Ist(t) \div MinutesPerDay
IstMinutes(t) == Ist(t) % MinutesPerDay
\* JavaScript getUTCDay of an IST day index: 0 is Sunday, 6 is Saturday
GetUTCDay(d) == (d + 1) % 7

\* instant of IST day d at IST minute-of-day m
AtIst(d, m) == d * MinutesPerDay + m - IstOffset

\* getLastNTradingDays(n, holidays = []): the IST day indices of the last n
\* days, counted back from today, that are not Saturday or Sunday
RECURSIVE GetLastNTradingDays(_, _)
GetLastNTradingDays(n, d) ==
  IF n = 0 THEN {}
  ELSE IF GetUTCDay(d) # 0 /\ GetUTCDay(d) # 6
       THEN {d} \cup GetLastNTradingDays(n - 1, d - 1)
       ELSE GetLastNTradingDays(n, d - 1)

\* the session day the wall clock runs through (a Monday) and the session
\* day before it (the Friday)
BaseDay == 7
PrevDay == CHOOSE d \in GetLastNTradingDays(1, BaseDay - 1) : TRUE
\* the instants the wall clock takes, ascending
ClockTimes == << AtIst(BaseDay, 9 * 60 + 17), AtIst(BaseDay, 9 * 60 + 22),
                 AtIst(BaseDay, 15 * 60 + 40), AtIst(BaseDay, 16 * 60) >>
ClockSet == {ClockTimes[i] : i \in 1..Len(ClockTimes)}
\* the instants of the pipeline runs of the previous session day
HistoryTimes == << AtIst(PrevDay, 15 * 60 + 12), AtIst(PrevDay, 15 * 60 + 27) >>

\* the bars the provider publishes for an interval (opening instants);
\* the 15:35 bar of the 5-minute series lies after the session close, and
\* the hourly series has enough bars of the previous day for the long EMA
ProviderBars(tf) ==
  IF tf = "5"
  THEN { AtIst(PrevDay, 15 * 60 + 10 - 5 * k) : k \in 0..(NCandles - 1) }
       \cup { AtIst(PrevDay, 15 * 60 + 15), AtIst(PrevDay, 15 * 60 + 20),
              AtIst(PrevDay, 15 * 60 + 25),
              AtIst(BaseDay, 9 * 60 + 15), AtIst(BaseDay, 9 * 60 + 20),
              AtIst(BaseDay, 15 * 60 + 35) }
  ELSE { AtIst(PrevDay, 14 * 60 + 15 - 60 * k) : k \in 0..(LongPeriod - 1) }
       \cup { AtIst(BaseDay, 9 * 60 + 15) }

MinutesPerCandle(tf) == IF tf = "5" THEN 5 ELSE 60
CandlesPerDay(tf) == IF tf = "5" THEN 75 ELSE 7

\* the close the provider reports at instant t0 for the bar opened at t: the
\* bar's last price so far while the bar is forming, its final close after
ProviderClose(s, tf, t, t0) ==
  10 * s + ((t \div 5) % 3) + (IF tf = "5" THEN 0 ELSE 2)
         + (IF t0 < t + MinutesPerCandle(tf) THEN 1 ELSE 0)

CeilDiv(a, b) == (a + b - 1) \div b

Max(S) == CHOOSE x \in S : \A y \in S : y <= x
Min(S) == CHOOSE x \in S : \A y \in S : x <= y

\* ascending sequence of a set of rows by timestamp (rows of one series)
RECURSIVE SortAsc(_)
SortAsc(S) ==
  IF S = {} THEN <<>>
  ELSE LET r == CHOOSE x \in S : \A y \in S : x.timestamp <= y.timestamp
       IN <<r>> \o SortAsc(S \ {r})

SeqToSet(q) == {q[i] : i \in 1..Len(q)}

\* the chunks of a sequence, each of at most ChunkSize elements
RECURSIVE Chunks(_)
Chunks(q) ==
  IF Len(q) = 0 THEN <<>>
  ELSE IF Len(q) <= ChunkSize THEN <<q>>
  ELSE <<SubSeq(q, 1, ChunkSize)>> \o Chunks(SubSeq(q, ChunkSize + 1, Len(q)))

\* slice(-n) of JavaScript: the last n elements
LastN(q, n) == IF Len(q) > n THEN SubSeq(q, Len(q) - n + 1, Len(q)) ELSE q

(***************************************************************************)
(* Store: tables are sets of rows; a call site of a store or provider call *)
(* is <<operation, stock, timeframe, indicator, chunk>> and a run is given *)
(* the set of call sites that fail in it.                                  *)
(***************************************************************************)
Site(op, s, tf, ind, k) == <<op, s, tf, ind, k>>

\* a plain insert: the conflict key is not given and nothing is merged
UpsertOhlc_Insert(table, rows) == table \cup rows

\* POST ...?on_conflict=stock_id,timeframe,timestamp  (merge-duplicates)
UpsertOhlc(table, rows) ==
  { r \in table : ~ \E n \in rows : /\ n.stock_id = r.stock_id
                                    /\ n.timeframe = r.timeframe
                                    /\ n.timestamp = r.timestamp } \cup rows

\* processing_state row of a key, or the empty set
StateRows(ps, fn, s, tf) ==
  { r \in ps : r.function_name = fn /\ r.stock_id = s /\ r.timeframe = tf }

(***************************************************************************)
(* shared/processing_state.ts                                              *)
(***************************************************************************)
PipelineKey == <<"pipeline", 0, "global">>

\* getProcessingState: the rows found (none or one); none when the query fails
GetProcessingState(ps, fn, s, tf, faults) ==
  IF Site("getProcessingState", s, tf, 0, 0) \in faults
  THEN {}
  ELSE StateRows(ps, fn, s, tf)

\* state?.last_processed_timestamp || '1970-01-01'
LastProcessedOf(rows) ==
  IF rows = {} THEN Epoch1970
  ELSE (CHOOSE r \in rows : TRUE).last_processed_timestamp

\* updateProcessingState: upsert on (function_name, stock_id, timeframe).
\* The row's last_run_at (the wall clock t0 of the write) is read by no
\* stage and is not kept in the row.
UpdateProcessingState(ps, fn, s, tf, ts, status, t0, faults) ==
  IF Site("updateProcessingState", s, tf, 0, 0) \in faults
  THEN ps
  ELSE (ps \ StateRows(ps, fn, s, tf)) \cup
       { [ function_name |-> fn, stock_id |-> s, timeframe |-> tf,
           last_processed_timestamp |-> ts, status |-> status ] }

\* rows of one (stock, timeframe) series
Series(table, s, tf) == { r \in table : r.stock_id = s /\ r.timeframe = tf }

\* the query timestamp=gt.<lastProcessed> of getNewCandlesSinceLastProcessed
NewerThan(rows, lastProcessed) == { r \in rows : r.timestamp > lastProcessed }

\* getNewCandlesSinceLastProcessed(functionName, stockId, timeframe, 210)
GetNewCandlesSinceLastProcessed(table, ps, fn, s, tf, faults) ==
  LET state == GetProcessingState(ps, fn, s, tf, faults)
      lastProcessed == LastProcessedOf(state)
      allNewCandles == SortAsc(NewerThan(Series(table, s, tf), lastProcessed))
  IN IF Site("getNewCandles", s, tf, 0, 0) \in faults
     THEN <<>>
     ELSE LastN(allNewCandles, NCandles)

\* getStockTimeframePairs: the distinct (stock_id, timeframe) of ohlc_data
GetStockTimeframePairs(table, faults) ==
  IF Site("getStockTimeframePairs", 0, "global", 0, 0) \in faults
  THEN {}
  ELSE { <<r.stock_id, r.timeframe>> : r \in table }

\* getCandlesSinceTimestamp(timestamp, 210): the candles of ALL series newer
\* than the timestamp, ascending, cut to the last 210.  The order among
\* equal timestamps is the store's choice, so the cut of a call is one of
\* several.
CandlesSinceCuts(table, timestamp) ==
  LET newer == NewerThan(table, timestamp)
  IN IF Cardinality(newer) > NCandles
     THEN { c \in SUBSET newer :
              /\ Cardinality(c) = NCandles
              /\ \A a \in c, b \in newer \ c : b.timestamp <= a.timestamp }
     ELSE { newer }

\* the call of getCandlesSinceTimestamp made for the pair (s, tf), given the
\* store's cut for that call
GetCandlesSinceTimestamp(cut, s, tf, faults) ==
  IF Site("getCandlesSince", s, tf, 0, 0) \in faults THEN {} ELSE cut

\* getPipelineLastProcessedTimestamp
GetPipelineLastProcessedTimestamp(ps, faults) ==
  LastProcessedOf(GetProcessingState(ps, "pipeline", 0, "global", faults))

(***************************************************************************)
(* fetch_ohlc/index.ts                                                     *)
(***************************************************************************)
\* getFromDateForNCandles: IST wall time '<first trading day> 09:15:00'
GetFromDateForNCandles(n, tf, t0) ==
  LET tradingDaysNeeded == CeilDiv(n, CandlesPerDay(tf))
      tradingDays == GetLastNTradingDays(tradingDaysNeeded, IstDay(t0))
  IN Min(tradingDays) * MinutesPerDay + OpenMinutes

\* a start of the fetch range that never falls back to the full window
CalculateFromDate_AlwaysDelta(lastOHLCTimestamp, tf, t0) ==
  IF lastOHLCTimestamp = Epoch1970
  THEN GetFromDateForNCandles(NCandles, tf, t0)
  ELSE Ist(lastOHLCTimestamp + 1)

\* calculateFromDate: IST wall time of the start of the fetch range
CalculateFromDate(lastOHLCTimestamp, tf, t0) ==
  IF lastOHLCTimestamp = Epoch1970
  THEN GetFromDateForNCandles(NCandles, tf, t0)
  ELSE LET timeDiffMinutes == t0 - lastOHLCTimestamp
           candlesNeeded == CeilDiv(timeDiffMinutes, MinutesPerCandle(tf))
       IN IF candlesNeeded > NCandles
          THEN GetFromDateForNCandles(NCandles, tf, t0)
          ELSE Ist(lastOHLCTimestamp + 1)

\* getCurrentTimeIST
GetCurrentTimeIST(t0) == Ist(t0)

\* fetchOHLC: the provider's bars of the range, as database rows
\* (transformedCandles of processStock)
FetchOHLC(s, tf, fromDate, toDate, t0) ==
  { [ stock_id |-> s, timeframe |-> tf, timestamp |-> t,
      close |-> ProviderClose(s, tf, t, t0) ] :
    t \in { b \in ProviderBars(tf) :
              b <= t0 /\ fromDate <= Ist(b) /\ Ist(b) <= toDate } }

\* the chunks upserted before the first failing chunk (the loop breaks there)
RECURSIVE UpsertedPrefix(_, _, _, _, _, _)
UpsertedPrefix(chunks, k, op, s, tf, faults) ==
  IF k > Len(chunks) \/ Site(op, s, tf, 0, k) \in faults
  THEN {}
  ELSE SeqToSet(chunks[k]) \cup UpsertedPrefix(chunks, k + 1, op, s, tf, faults)

\* processStock, one interval of the loop: the table after it, the result
\* pushed for the interval, whether a call made for the interval failed, and
\* the fromDate passed to fetchOHLC (Null when the interval is skipped)
ProcessInterval(table, s, tf, lastProcessedTimestamp, t0, faults) ==
  LET series == Series(table, s, tf)
      lastOHLCTimestamp ==
        IF Site("lastOhlc", s, tf, 0, 0) \in faults \/ series = {}
        THEN Epoch1970
        ELSE Max({ r.timestamp : r \in series })
      existingOk == Site("existingCandles", s, tf, 0, 0) \notin faults
      existingCandles == NewerThan(series, lastProcessedTimestamp)
      fromDate == CalculateFromDate(lastOHLCTimestamp, tf, t0)
      toDate == GetCurrentTimeIST(t0)
      candles == FetchOHLC(s, tf, fromDate, toDate, t0)
      chunks == Chunks(SortAsc(candles))
      stored == UpsertedPrefix(chunks, 1, "upsertOhlc", s, tf, faults)
      failed == \E k \in 1..Len(chunks) : Site("upsertOhlc", s, tf, 0, k) \in faults
      readFailed == \/ Site("lastOhlc", s, tf, 0, 0) \in faults
                    \/ ~ existingOk
  IN IF existingOk /\ existingCandles # {}
     THEN [ table |-> table, result |-> "skipped", candles |-> 0,
            failure |-> readFailed, fromDate |-> Null ]
     ELSE IF Site("fetchOHLC", s, tf, 0, 0) \in faults
     THEN [ table |-> table, result |-> "error", candles |-> 0,
            failure |-> TRUE, fromDate |-> fromDate ]
     ELSE IF candles = {}
     THEN [ table |-> table, result |-> "no_data", candles |-> 0,
            failure |-> readFailed, fromDate |-> fromDate ]
     ELSE [ table |-> UpsertOhlc(table, stored),
            result |-> IF failed THEN "upsert_failed" ELSE "ok",
            candles |-> Cardinality(stored),
            failure |-> readFailed \/ failed, fromDate |-> fromDate ]

\* the (stock, interval) pairs in the order the handler walks them
RECURSIVE PairOrder(_, _)
PairOrder(stocks, i) ==
  IF stocks = {} THEN <<>>
  ELSE IF i > Len(Intervals) THEN PairOrder(stocks \ {Min(stocks)}, 1)
  ELSE << <<Min(stocks), Intervals[i]>> >> \o PairOrder(stocks, i + 1)

\* the entry of allResults for a pair
PairResult(p, r) == [ pair |-> p, result |-> r.result, failure |-> r.failure ]

\* the table after processStock of every pair of the sequence, and allResults
RECURSIVE FetchAll(_, _, _, _, _, _)
FetchAll(table, results, order, lastProcessedTimestamp, t0, faults) ==
  IF Len(order) = 0 THEN [ table |-> table, results |-> results ]
  ELSE LET p == Head(order)
           r == ProcessInterval(table, p[1], p[2], lastProcessedTimestamp,
                                t0, faults)
       IN FetchAll(r.table,
                   results \cup { [ pair |-> p, result |-> r.result,
                                    failure |-> r.failure,
                                    fromDate |-> r.fromDate ] },
                   Tail(order), lastProcessedTimestamp, t0, faults)

\* a handler that answers 500 when the work on a pair failed
FetchOhlcRun_FailOnPairError(table, ps, t0, faults) ==
  LET lastProcessedTimestamp == GetPipelineLastProcessedTimestamp(ps, faults)
      stocksOk == Site("stocks", 0, "global", 0, 0) \notin faults
      all == FetchAll(table, {}, PairOrder(Stocks, 1), lastProcessedTimestamp,
                      t0, faults)
  IN IF ~ stocksOk \/ \E x \in all.results : x.failure
     THEN [ ohlc |-> table, status |-> 500, results |-> all.results ]
     ELSE [ ohlc |-> all.table, status |-> 200, results |-> all.results ]

\* the serve handler of fetch_ohlc: the run's outcome
FetchOhlcRun(table, ps, t0, faults) ==
  LET lastProcessedTimestamp == GetPipelineLastProcessedTimestamp(ps, faults)
      stocksOk == Site("stocks", 0, "global", 0, 0) \notin faults
      all == FetchAll(table, {}, PairOrder(Stocks, 1), lastProcessedTimestamp,
                      t0, faults)
  IN IF ~ stocksOk
     THEN [ ohlc |-> table, status |-> 500, results |-> {} ]
     ELSE [ ohlc |-> all.table, status |-> 200, results |-> all.results ]

(***************************************************************************)
(* compute_signals/index.ts                                                *)
(***************************************************************************)
RECURSIVE Gcd(_, _)
Gcd(a, b) == IF b = 0 THEN a ELSE Gcd(b, a % b)

\* a fraction in lowest terms
Frac(n, d) == LET g == Gcd(n, d) IN [num |-> n \div g, den |-> d \div g]

RECURSIVE SumSeq(_)
SumSeq(q) == IF Len(q) = 0 THEN 0 ELSE Head(q) + SumSeq(Tail(q))

\* the loop of computeEMA: ema = closes[i]*alpha + ema*(1-alpha), alpha = 2/(period+1)
RECURSIVE EmaLoop(_, _, _, _)
EmaLoop(closes, period, i, ema) ==
  IF i > Len(closes) THEN ema
  ELSE EmaLoop(closes, period, i + 1,
               Frac(2 * closes[i] * ema.den + (period - 1) * ema.num,
                    ema.den * (period + 1)))

\* toFixed(6): the value in millionths, rounded to the nearest
ToFixed6(f) ==
  LET q == f.num \div f.den
      r == f.num % f.den
  IN q * 1000000 + (2 * r * 1000000 + f.den) \div (2 * f.den)

\* an EMA seeded with the first close instead of the mean of the first period
\* closes
ComputeEMA_FirstCloseSeed(closes, period) ==
  IF Len(closes) < period THEN Null
  ELSE ToFixed6(EmaLoop(closes, period, 2, Frac(closes[1], 1)))

\* computeEMA(closes, period): null when there are fewer closes than period
ComputeEMA(closes, period) ==
  IF Len(closes) < period THEN Null
  ELSE ToFixed6(EmaLoop(closes, period, period + 1,
                        Frac(SumSeq(SubSeq(closes, 1, period)), period)))

SignalSeries(sig, s, ind, tf) ==
  { r \in sig : r.stock_id = s /\ r.indicator_id = ind /\ r.timeframe = tf }

\* POST signals?on_conflict=stock_id,indicator_id,timeframe,timestamp
UpsertSignals(sig, rows) ==
  { r \in sig : ~ \E n \in rows : /\ n.stock_id = r.stock_id
                                  /\ n.indicator_id = r.indicator_id
                                  /\ n.timeframe = r.timeframe
                                  /\ n.timestamp = r.timestamp } \cup rows

\* the signals a run computes for one indicator from the new candles
NewSignals(newCandles, existingTimestamps, s, ind, tf) ==
  LET closes == [ i \in 1..Len(newCandles) |-> newCandles[i].close ]
      period == PeriodOf(ind)
  IN { [ stock_id |-> s, indicator_id |-> ind, timeframe |-> tf,
         timestamp |-> newCandles[i].timestamp,
         value |-> ComputeEMA(SubSeq(closes, 1, i), period) ] :
       i \in { j \in period..Len(newCandles) :
                 newCandles[j].timestamp \notin existingTimestamps } }

\* the rows of the chunks whose call does not fail (the loop does not break)
ChunksDone(chunks, op, s, tf, ind, faults) ==
  UNION { SeqToSet(chunks[k]) :
          k \in { j \in 1..Len(chunks) : Site(op, s, tf, ind, j) \notin faults } }

\* descending sequence of a set of rows by timestamp
RECURSIVE SortDesc(_)
SortDesc(S) ==
  IF S = {} THEN <<>>
  ELSE LET r == CHOOSE x \in S : \A y \in S : y.timestamp <= x.timestamp
       IN <<r>> \o SortDesc(S \ {r})

\* slice(n) of JavaScript: the elements after the first n
DropFirst(q, n) == IF Len(q) > n THEN SubSeq(q, n + 1, Len(q)) ELSE <<>>

\* the prune query ordered ascending: the oldest MaxSignals signals are kept
PruneSignals_Oldest(sig, s, ind, tf, faults) ==
  LET allSignals == SortAsc(SignalSeries(sig, s, ind, tf))
      deleted == SeqToSet(DropFirst(allSignals, MaxSignals))
  IN IF Site("pruneQuery", s, tf, ind, 0) \in faults THEN sig ELSE sig \ deleted

\* prune: keep only the latest MaxSignals signals of the series
PruneSignals(sig, s, ind, tf, faults) ==
  LET allSignals == SortDesc(SignalSeries(sig, s, ind, tf))
      timestampsToDelete == DropFirst(allSignals, MaxSignals)
      deleted == ChunksDone(Chunks(timestampsToDelete), "pruneDelete",
                            s, tf, ind, faults)
  IN IF Site("pruneQuery", s, tf, ind, 0) \in faults
     THEN sig
     ELSE IF Len(allSignals) > MaxSignals
     THEN { r \in sig : ~ \E d \in deleted : /\ r.stock_id = s
                                             /\ r.indicator_id = ind
                                             /\ r.timeframe = tf
                                             /\ r.timestamp = d.timestamp }
     ELSE sig

\* the body of the indicator loop for one indicator
ProcessIndicator(sig, newCandles, s, ind, tf, faults) ==
  LET existingTimestamps ==
        IF Site("existingSignals", s, tf, ind, 0) \in faults
        THEN {}
        ELSE { r.timestamp : r \in SignalSeries(sig, s, ind, tf) }
      newSignals == NewSignals(newCandles, existingTimestamps, s, ind, tf)
      chunks == Chunks(SortAsc(newSignals))
      upserted == ChunksDone(chunks, "upsertSignals", s, tf, ind, faults)
  IN PruneSignals(UpsertSignals(sig, upserted), s, ind, tf, faults)

RECURSIVE ProcessIndicators(_, _, _, _, _, _)
ProcessIndicators(sig, newCandles, s, tf, i, faults) ==
  IF i > Len(IndicatorIds) THEN sig
  ELSE ProcessIndicators(
         ProcessIndicator(sig, newCandles, s, IndicatorIds[i], tf, faults),
         newCandles, s, tf, i + 1, faults)

\* some signal upsert of the pair fails in the run (errors.push of the
\* upsert loop)
SignalUpsertFails(sig, newCandles, s, tf, faults) ==
  \E i \in 1..Len(IndicatorIds) :
    LET ind == IndicatorIds[i]
        existingTimestamps ==
          IF Site("existingSignals", s, tf, ind, 0) \in faults
          THEN {}
          ELSE { r.timestamp : r \in SignalSeries(sig, s, ind, tf) }
        chunks == Chunks(SortAsc(NewSignals(newCandles, existingTimestamps,
                                            s, ind, tf)))
    IN \E k \in 1..Len(chunks) : Site("upsertSignals", s, tf, ind, k) \in faults

\* some call made for the pair after its new candles are read fails: the
\* query of the existing signals, an upsert, the prune query or a prune
\* delete of an indicator, or the write of the checkpoint
SignalCallFails(sig, newCandles, s, tf, faults) ==
  \/ SignalUpsertFails(sig, newCandles, s, tf, faults)
  \/ Site("updateProcessingState", s, tf, 0, 0) \in faults
  \/ \E i \in 1..Len(IndicatorIds) :
       LET ind == IndicatorIds[i]
           existingTimestamps == { r.timestamp : r \in SignalSeries(sig, s, ind, tf) }
           chunks == Chunks(SortAsc(NewSignals(newCandles, existingTimestamps,
                                               s, ind, tf)))
           upserted == ChunksDone(chunks, "upsertSignals", s, tf, ind, faults)
           allSignals == SortDesc(SignalSeries(UpsertSignals(sig, upserted),
                                               s, ind, tf))
           deletes == Chunks(DropFirst(allSignals, MaxSignals))
       IN \/ Site("existingSignals", s, tf, ind, 0) \in faults
          \/ Site("pruneQuery", s, tf, ind, 0) \in faults
          \/ \E k \in 1..Len(deletes) : Site("pruneDelete", s, tf, ind, k) \in faults

\* the first new candle taken for the last
LatestTimestamp_First(newCandles) == newCandles[1].timestamp

\* the timestamp written to the checkpoint of the pair at the end of
\* processStockTimeframe
LatestTimestamp(newCandles) == newCandles[Len(newCandles)].timestamp

\* processStockTimeframe of compute_signals: signals and checkpoints after it
SignalsProcessPair(table, sig, ps, s, tf, t0, faults) ==
  LET newCandles == GetNewCandlesSinceLastProcessed(table, ps,
                      "compute_signals", s, tf, faults)
      readFailed == \/ Site("getProcessingState", s, tf, 0, 0) \in faults
                    \/ Site("getNewCandles", s, tf, 0, 0) \in faults
  IN IF Len(newCandles) = 0
     THEN [ signals |-> sig, ps |-> ps, result |-> "skipped",
            failure |-> readFailed ]
     ELSE [ signals |-> ProcessIndicators(sig, newCandles, s, tf, 1, faults),
            ps |-> UpdateProcessingState(ps, "compute_signals", s, tf,
                     LatestTimestamp(newCandles), "completed", t0, faults),
            result |-> IF SignalUpsertFails(sig, newCandles, s, tf, faults)
                       THEN "errors" ELSE "ok",
            failure |-> \/ readFailed
                        \/ SignalCallFails(sig, newCandles, s, tf, faults) ]

\* the signals and checkpoints after every pair of the sequence, the pairs
\* whose result carries errors, and allResults
RECURSIVE SignalsAll(_, _, _, _, _, _, _, _)
SignalsAll(table, sig, ps, errors, results, order, t0, faults) ==
  IF Len(order) = 0
  THEN [ signals |-> sig, ps |-> ps, errors |-> errors, results |-> results ]
  ELSE LET p == Head(order)
           r == SignalsProcessPair(table, sig, ps, p[1], p[2], t0, faults)
       IN SignalsAll(table, r.signals, r.ps,
                     IF r.result = "errors" THEN errors \cup {p} ELSE errors,
                     results \cup {PairResult(p, r)},
                     Tail(order), t0, faults)

\* the pairs of a set in the handler's order
OrderOf(pairs) == SelectSeq(PairOrder(Stocks, 1), LAMBDA p : p \in pairs)

\* the rows of the query indicators?is_active=eq.true&type=eq.ema: the two
\* EMA indicators, or none when the table holds no active EMA indicator
\* (that content of the table is chosen with the failing call sites of a run)
ActiveIndicators(faults) ==
  IF Site("noActiveIndicators", 0, "global", 0, 0) \in faults
  THEN {}
  ELSE {Ema9Id, Ema30Id}

\* a handler that answers 200 when it finds no indicator or no pair
ComputeSignalsRun_EmptyOk(table, sig, ps, t0, faults) ==
  LET indicatorsOk == Site("indicators", 0, "global", 0, 0) \notin faults
      pairs == GetStockTimeframePairs(table, faults)
  IN IF ~ indicatorsOk
     THEN [ signals |-> sig, ps |-> ps, errors |-> {}, results |-> {},
            status |-> 500 ]
     ELSE IF ActiveIndicators(faults) = {} \/ pairs = {}
     THEN [ signals |-> sig, ps |-> ps, errors |-> {}, results |-> {},
            status |-> 200 ]
     ELSE [ status |-> 200 ] @@ SignalsAll(table, sig, ps, {}, {},
                                           OrderOf(pairs), t0, faults)

\* the serve handler of compute_signals: the run's outcome
ComputeSignalsRun(table, sig, ps, t0, faults) ==
  LET indicatorsOk == Site("indicators", 0, "global", 0, 0) \notin faults
      pairs == GetStockTimeframePairs(table, faults)
  IN IF ~ indicatorsOk
     THEN [ signals |-> sig, ps |-> ps, errors |-> {}, results |-> {},
            status |-> 500 ]
     ELSE IF ActiveIndicators(faults) = {}
     THEN [ signals |-> sig, ps |-> ps, errors |-> {}, results |-> {},
            status |-> 404 ]
     ELSE IF pairs = {}
     THEN [ signals |-> sig, ps |-> ps, errors |-> {}, results |-> {},
            status |-> 404 ]
     ELSE [ status |-> 200 ] @@ SignalsAll(table, sig, ps, {}, {},
                                           OrderOf(pairs), t0, faults)

(***************************************************************************)
(* compute_ema_trend/index.ts                                              *)
(***************************************************************************)
TrendSeries(tr, s, tf) == { r \in tr : r.stock_id = s /\ r.timeframe = tf }

\* POST 9_30_ema_trend?on_conflict=stock_id,timeframe,timestamp
UpsertTrend(tr, rows) ==
  { r \in tr : ~ \E n \in rows : /\ n.stock_id = r.stock_id
                                 /\ n.timeframe = r.timeframe
                                 /\ n.timestamp = r.timestamp } \cup rows

\* a previous-value query without the filter on the first new timestamp
PrevEma_Unfiltered(sig, s, ind, tf, firstTimestamp, op, faults) ==
  LET before == SignalSeries(sig, s, ind, tf)
  IN IF Site(op, s, tf, ind, 0) \in faults \/ before = {}
     THEN Null
     ELSE (CHOOSE r \in before : \A o \in before : o.timestamp <= r.timestamp).value

\* value of the latest signal of the series before firstTimestamp, or Null
PrevEma(sig, s, ind, tf, firstTimestamp, op, faults) ==
  LET before == { r \in SignalSeries(sig, s, ind, tf) :
                    r.timestamp < firstTimestamp }
  IN IF Site(op, s, tf, ind, 0) \in faults \/ before = {}
     THEN Null
     ELSE (CHOOSE r \in before : \A o \in before : o.timestamp <= r.timestamp).value

\* timestamp of the row that query returns, or Null
PrevEmaTimestamp(sig, s, ind, tf, firstTimestamp, op, faults) ==
  LET before == { r \in SignalSeries(sig, s, ind, tf) :
                    r.timestamp < firstTimestamp }
  IN IF Site(op, s, tf, ind, 0) \in faults \/ before = {}
     THEN Null
     ELSE (CHOOSE r \in before : \A o \in before : o.timestamp <= r.timestamp).timestamp

\* a crossover test that asks the short EMA to end strictly above the long
Crossover_Strict(prevEma9, prevEma30, ema9, ema30) ==
  IF prevEma9 # Null /\ prevEma30 # Null
  THEN IF prevEma9 < prevEma30 /\ ema9 > ema30 THEN "Bullish"
       ELSE IF prevEma9 > prevEma30 /\ ema9 <= ema30 THEN "Bearish"
       ELSE "null"
  ELSE "null"

\* crossover of one step of the loop
Crossover(prevEma9, prevEma30, ema9, ema30) ==
  IF prevEma9 # Null /\ prevEma30 # Null
  THEN IF prevEma9 < prevEma30 /\ ema9 >= ema30 THEN "Bullish"
       ELSE IF prevEma9 > prevEma30 /\ ema9 <= ema30 THEN "Bearish"
       ELSE "null"
  ELSE "null"

Trend(ema9, ema30) == IF ema9 >= ema30 THEN "Bullish" ELSE "Bearish"

\* the loop over sortedCandles: the trendData rows
RECURSIVE TrendLoop(_, _, _, _, _, _, _, _)
TrendLoop(sortedCandles, i, ema9Map, ema30Map, prevEma9, prevEma30, s, tf) ==
  IF i > Len(sortedCandles) THEN <<>>
  ELSE LET ts == sortedCandles[i].timestamp
           m9 == { r \in ema9Map : r.timestamp = ts }
           m30 == { r \in ema30Map : r.timestamp = ts }
       IN IF m9 = {} \/ m30 = {}
          THEN TrendLoop(sortedCandles, i + 1, ema9Map, ema30Map,
                         prevEma9, prevEma30, s, tf)
          ELSE LET ema9 == (CHOOSE r \in m9 : TRUE).value
                   ema30 == (CHOOSE r \in m30 : TRUE).value
               IN << [ stock_id |-> s, timeframe |-> tf, timestamp |-> ts,
                       ema_9 |-> ema9, ema_30 |-> ema30,
                       trend |-> Trend(ema9, ema30),
                       crossover |-> Crossover(prevEma9, prevEma30, ema9, ema30) ] >>
                  \o TrendLoop(sortedCandles, i + 1, ema9Map, ema30Map,
                               ema9, ema30, s, tf)

\* the loop over sortedCandles: for every row pushed, the timestamps of the
\* signals that prevEma9 and prevEma30 hold when the row is computed
RECURSIVE TrendPriors(_, _, _, _, _, _, _, _)
TrendPriors(sortedCandles, i, ema9Map, ema30Map, prev9At, prev30At, s, tf) ==
  IF i > Len(sortedCandles) THEN {}
  ELSE LET ts == sortedCandles[i].timestamp
       IN IF \/ ~ \E r \in ema9Map : r.timestamp = ts
             \/ ~ \E r \in ema30Map : r.timestamp = ts
          THEN TrendPriors(sortedCandles, i + 1, ema9Map, ema30Map,
                           prev9At, prev30At, s, tf)
          ELSE { [ pair |-> <<s, tf>>, timestamp |-> ts,
                   prev9At |-> prev9At, prev30At |-> prev30At ] }
               \cup TrendPriors(sortedCandles, i + 1, ema9Map, ema30Map,
                                ts, ts, s, tf)

\* the candles of the pair that the trend stage takes as new
TrendNewCandles(allNewCandles, s, tf) == Series(allNewCandles, s, tf)

\* processStockTimeframe of compute_ema_trend: the trend table after it, its
\* result, and whether a call made for the pair failed
TrendProcessPair(sig, tr, cuts, s, tf, faults) ==
  LET allNewCandles == GetCandlesSinceTimestamp(cuts[<<s, tf>>], s, tf, faults)
      newCandles == TrendNewCandles(allNewCandles, s, tf)
      timestamps == { c.timestamp : c \in newCandles }
      ema9Signals == { r \in SignalSeries(sig, s, Ema9Id, tf) :
                         r.timestamp \in timestamps }
      ema30Signals == { r \in SignalSeries(sig, s, Ema30Id, tf) :
                          r.timestamp \in timestamps }
      sortedCandles == SortAsc(newCandles)
      firstTimestamp == sortedCandles[1].timestamp
      prevEma9 == PrevEma(sig, s, Ema9Id, tf, firstTimestamp, "prevEma", faults)
      prevEma30 == PrevEma(sig, s, Ema30Id, tf, firstTimestamp, "prevEma", faults)
      trendData == TrendLoop(sortedCandles, 1, ema9Signals, ema30Signals,
                             prevEma9, prevEma30, s, tf)
      chunks == Chunks(trendData)
      stored == UpsertedPrefix(chunks, 1, "upsertTrend", s, tf, faults)
      failed == \E k \in 1..Len(chunks) : Site("upsertTrend", s, tf, 0, k) \in faults
      readFailed == Site("getCandlesSince", s, tf, 0, 0) \in faults
      priors == TrendPriors(sortedCandles, 1, ema9Signals, ema30Signals,
                  PrevEmaTimestamp(sig, s, Ema9Id, tf, firstTimestamp,
                                   "prevEma", faults),
                  PrevEmaTimestamp(sig, s, Ema30Id, tf, firstTimestamp,
                                   "prevEma", faults), s, tf)
  IN IF newCandles = {}
     THEN [ trend |-> tr, result |-> "skipped", failure |-> readFailed,
            priors |-> {} ]
     ELSE IF \E ind \in {Ema9Id, Ema30Id} : Site("emaSignals", s, tf, ind, 0) \in faults
     THEN [ trend |-> tr, result |-> "error", failure |-> TRUE, priors |-> {} ]
     ELSE [ trend |-> UpsertTrend(tr, stored),
            result |-> IF failed THEN "error" ELSE "ok",
            priors |-> priors,
            failure |-> \/ readFailed \/ failed
                        \/ \E ind \in {Ema9Id, Ema30Id} :
                             Site("prevEma", s, tf, ind, 0) \in faults ]

\* the trend table after every pair of the sequence, and allResults
RECURSIVE TrendAll(_, _, _, _, _, _, _)
TrendAll(sig, tr, results, priors, cuts, order, faults) ==
  IF Len(order) = 0
  THEN [ trend |-> tr, results |-> results, priors |-> priors ]
  ELSE LET p == Head(order)
           r == TrendProcessPair(sig, tr, cuts, p[1], p[2], faults)
       IN TrendAll(sig, r.trend, results \cup {PairResult(p, r)},
                   priors \cup r.priors, cuts, Tail(order), faults)

\* the serve handler of compute_ema_trend: the run's outcome, given the
\* store's cut for the candle query of each pair
ComputeEmaTrendRun(table, sig, tr, ps, cuts, faults) ==
  LET indicatorsOk == Site("indicators", 0, "global", 0, 0) \notin faults
      pairs == GetStockTimeframePairs(table, faults)
  IN IF ~ indicatorsOk
     THEN [ trend |-> tr, status |-> 500, results |-> {}, priors |-> {} ]
     ELSE IF pairs = {}
     THEN [ trend |-> tr, status |-> 404, results |-> {}, priors |-> {} ]
     ELSE [ status |-> 200 ] @@ TrendAll(sig, tr, {}, {}, cuts,
                                         OrderOf(pairs), faults)

(***************************************************************************)
(* populate_strategy_9_30_ema/index.ts                                     *)
(***************************************************************************)
\* the first row of a stock in a list ordered by timestamp descending
LatestOf(rows) == CHOOSE r \in rows : \A o \in rows : o.timestamp <= r.timestamp

\* a percent change cut off after the second decimal
PrcntChange_Truncated(cmp, prevClose) ==
  IF prevClose = 0 THEN Null
  ELSE LET n == (cmp - prevClose) * 10000
       IN IF n >= 0 THEN n \div prevClose
          ELSE 0 - ((0 - n) \div prevClose)

\* Math.round(rawPercentage * 100) / 100 as the POST body carries it, in
\* hundredths of a percent.  With prevClose = 0 the quotient is Infinity,
\* -Infinity or NaN, Math.round keeps it, and JSON.stringify writes a
\* non-finite number as null.  (A close is below 5000 here, so that no
\* finite result equals Null.)
PrcntChange(cmp, prevClose) ==
  IF prevClose = 0 THEN Null
  ELSE LET n == (cmp - prevClose) * 10000
       IN IF n >= 0 THEN (2 * n + prevClose) \div (2 * prevClose)
          ELSE 0 - ((2 * (0 - n) + prevClose - 1) \div (2 * prevClose))

\* latest trend of a stock and timeframe among the rows, or "null"
LatestTrend(rows, s, tf) ==
  LET mine == TrendSeries(rows, s, tf)
  IN IF mine = {} THEN "null" ELSE LatestOf(mine).trend

\* timestamp of the latest row with a crossover, or Null
LatestCrossover(rows, s, tf) ==
  LET mine == { r \in TrendSeries(rows, s, tf) : r.crossover # "null" }
  IN IF mine = {} THEN Null ELSE LatestOf(mine).timestamp

\* the strategyData rows built by the handler
StrategyData(table, tr, lastProcessedTimestamp, t0) ==
  LET allLatestPrices == NewerThan(table, lastProcessedTimestamp)
      allPreviousDayPrices == { r \in table : r.timestamp < (t0 \div MinutesPerDay) * MinutesPerDay }
      allTrends == NewerThan(tr, lastProcessedTimestamp)
  IN { [ stock_id |-> s,
         cmp |-> LatestOf({ r \in allLatestPrices : r.stock_id = s }).close,
         cmp_timestamp |->
           LatestOf({ r \in allLatestPrices : r.stock_id = s }).timestamp,
         prcnt_change |->
           LET prev == { r \in allPreviousDayPrices : r.stock_id = s }
           IN IF prev = {} THEN Null
              ELSE PrcntChange(
                     LatestOf({ r \in allLatestPrices : r.stock_id = s }).close,
                     LatestOf(prev).close),
         trend_5min |-> LatestTrend(allTrends, s, "5"),
         crossover_5min |-> LatestCrossover(allTrends, s, "5"),
         trend_60min |-> LatestTrend(allTrends, s, "60"),
         crossover_60min |-> LatestCrossover(allTrends, s, "60") ] :
       s \in { r.stock_id : r \in allLatestPrices } }

\* a handler without the early return on an empty price query
PopulateRun_NoEarlyReturn(table, tr, ps, strat, t0, faults) ==
  LET lastProcessedTimestamp == GetPipelineLastProcessedTimestamp(ps, faults)
      queriesOk == Site("strategyQueries", 0, "global", 0, 0) \notin faults
      cleared == IF Site("clearStrategy", 0, "global", 0, 0) \in faults
                 THEN strat ELSE {}
      data == StrategyData(table, tr, lastProcessedTimestamp, t0)
  IN IF ~ queriesOk
     THEN [ strategy |-> strat, status |-> 500 ]
     ELSE IF Site("insertStrategy", 0, "global", 0, 0) \in faults
     THEN [ strategy |-> cleared, status |-> 500 ]
     ELSE [ strategy |-> cleared \cup data, status |-> 200 ]

\* the serve handler of populate_strategy_9_30_ema: the run's outcome
PopulateRun(table, tr, ps, strat, t0, faults) ==
  LET lastProcessedTimestamp == GetPipelineLastProcessedTimestamp(ps, faults)
      queriesOk == Site("strategyQueries", 0, "global", 0, 0) \notin faults
      cleared == IF Site("clearStrategy", 0, "global", 0, 0) \in faults
                 THEN strat ELSE {}
      data == StrategyData(table, tr, lastProcessedTimestamp, t0)
  IN IF ~ queriesOk
     THEN [ strategy |-> strat, status |-> 500 ]
     ELSE IF NewerThan(table, lastProcessedTimestamp) = {}
     THEN [ strategy |-> strat, status |-> 200 ]
     ELSE IF Site("insertStrategy", 0, "global", 0, 0) \in faults
     THEN [ strategy |-> cleared, status |-> 500 ]
     ELSE [ strategy |-> cleared \cup data, status |-> 200 ]

(***************************************************************************)
(* pipeline/index.ts                                                       *)
(***************************************************************************)
\* a status that leaves a run without success marked as in progress
PipelineStatusOf_InProgress(success) ==
  IF success THEN "completed" ELSE "processing"

\* success ? 'completed' : 'failed'
PipelineStatusOf(success) == IF success THEN "completed" ELSE "failed"

\* updatePipelineStatus(success): the checkpoint table after it
UpdatePipelineStatus(ps, success, t0, faults) ==
  UpdateProcessingState(ps, "pipeline", 0, "global", t0,
                        PipelineStatusOf(success), t0, faults)

\* the indicator stage called before the ingestion stage
Steps_SignalsFirst ==
  << "compute_signals", "fetch_ohlc", "compute_ema_trend",
     "populate_strategy_9_30_ema" >>

\* the steps of the orchestrator, in the order of the handler
Steps == << "fetch_ohlc", "compute_signals", "compute_ema_trend",
            "populate_strategy_9_30_ema" >>
StepSet == { "fetch_ohlc", "compute_signals", "compute_ema_trend",
             "populate_strategy_9_30_ema" }

\* res.ok of a stage's response
ResOk(status) == status >= 200 /\ status <= 299

\* the entry pushed to results for a step whose call returned
StepResult(step, status) ==
  [ step |-> step, ok |-> ResOk(status), status |-> status ]

\* the flag of the last step alone
PipelineSuccess_LastOnly(results, threw) ==
  ~ threw /\ (Len(results) > 0 => results[Len(results)].ok)

\* pipelineSuccess at the end of the handler: true unless a step's response
\* was not ok or a call threw
PipelineSuccess(results, threw) ==
  ~ threw /\ \A i \in 1..Len(results) : results[i].ok

\* no status written when a call threw
PipelineStatusCalls_TryOnly(success, threw) ==
  IF threw THEN <<>> ELSE << PipelineStatusOf(success) >>

\* the calls of updatePipelineStatus of one run, in order: the one at the end
\* of the try block, or the one of the catch block when a call threw
PipelineStatusCalls(success, threw) ==
  IF threw THEN << PipelineStatusOf(FALSE) >>
  ELSE << PipelineStatusOf(success) >>

(***************************************************************************)
(* Failing call sites of a run: no call fails, or one call of one stage    *)
(***************************************************************************)
\* the most chunks one upsert loop of a run makes
MaxChunks ==
  CeilDiv(Cardinality({ b \in ProviderBars("5") : IstDay(b) = BaseDay }),
          ChunkSize)

GlobalSites(ops) == { Site(op, 0, "global", 0, 0) : op \in ops }
PairSites(ops) == { Site(op, p[1], p[2], 0, 0) : op \in ops, p \in Pairs }
ChunkSites(ops) ==
  { Site(op, p[1], p[2], 0, k) : op \in ops, p \in Pairs, k \in 1..MaxChunks }
IndicatorSites(ops) ==
  { Site(op, p[1], p[2], i, 0) : op \in ops, p \in Pairs, i \in {Ema9Id, Ema30Id} }

SitesOf(step) ==
  IF step = "fetch_ohlc"
  THEN GlobalSites({"getProcessingState", "stocks"})
       \cup PairSites({"lastOhlc", "existingCandles", "fetchOHLC"})
       \cup ChunkSites({"upsertOhlc"})
  ELSE IF step = "compute_signals"
  THEN GlobalSites({"indicators", "getStockTimeframePairs"})
       \cup PairSites({"getProcessingState", "getNewCandles",
                       "updateProcessingState"})
       \cup IndicatorSites({"existingSignals", "pruneQuery"})
       \cup { Site(op, p[1], p[2], i, k) :
               op \in {"upsertSignals", "pruneDelete"}, p \in Pairs,
               i \in {Ema9Id, Ema30Id}, k \in 1..MaxChunks }
  ELSE IF step = "compute_ema_trend"
  THEN GlobalSites({"getProcessingState", "indicators",
                    "getStockTimeframePairs"})
       \cup PairSites({"getCandlesSince"})
       \cup IndicatorSites({"emaSignals", "prevEma"})
       \cup ChunkSites({"upsertTrend"})
  ELSE IF step = "populate_strategy_9_30_ema"
  THEN GlobalSites({"getProcessingState", "strategyQueries", "clearStrategy",
                    "insertStrategy"})
  ELSE IF step = "status"
  THEN GlobalSites({"updateProcessingState"})
  ELSE IF step = "callFunction"
  THEN { Site("callFunction", 0, x, 0, 0) : x \in StepSet }
  ELSE {}

\* the sets of failing call sites a run of a step is given
NoFaults == {{}}
FaultSets(step) == NoFaults \cup { {x} : x \in SitesOf(step) }

\* the calls of a step whose failure makes its handler answer with a status
\* that is not 2xx: no call fails, or one of those calls
StageFailureSets(step) ==
  NoFaults \cup
  { {x} : x \in IF step = "fetch_ohlc" THEN GlobalSites({"stocks"})
                ELSE IF step \in {"compute_signals", "compute_ema_trend"}
                THEN GlobalSites({"indicators", "getStockTimeframePairs"})
                ELSE IF step = "populate_strategy_9_30_ema"
                THEN GlobalSites({"strategyQueries", "insertStrategy"})
                ELSE {} }

\* no call fails, or one call a step makes while it processes the 5-minute
\* series of a stock
PairFaultSets(step) ==
  NoFaults \cup { {x} : x \in { y \in SitesOf(step) : y[3] = "5" } }

\* the failing call sites of one step of a pipeline run in which the calls
\* of step st fail at the sites f
FaultsAt(step, st, f) == IF step = st THEN f ELSE {}

(***************************************************************************)
(* State machine                                                           *)
(***************************************************************************)
\* the tables before the first run
EmptyStore ==
  [ ohlc |-> {}, signals |-> {}, trend |-> {}, strategy |-> {}, ps |-> {} ]

\* the handler of a step run on the tables S: the tables after it and the
\* status of its response.  The outcomes of the trend stage differ in the
\* store's cuts of its candle queries.
StepOutcomes(step, S, t0, faults) ==
  IF step = "fetch_ohlc"
  THEN { LET r == FetchOhlcRun(S.ohlc, S.ps, t0, faults)
         IN [ store |-> [S EXCEPT !.ohlc = r.ohlc], status |-> r.status ] }
  ELSE IF step = "compute_signals"
  THEN { LET r == ComputeSignalsRun(S.ohlc, S.signals, S.ps, t0, faults)
         IN [ store |-> [S EXCEPT !.signals = r.signals, !.ps = r.ps],
              status |-> r.status ] }
  ELSE IF step = "compute_ema_trend"
  THEN { LET r == ComputeEmaTrendRun(S.ohlc, S.signals, S.trend, S.ps, cuts,
                                     faults)
         IN [ store |-> [S EXCEPT !.trend = r.trend], status |-> r.status ] :
         cuts \in [ Pairs -> CandlesSinceCuts(S.ohlc,
                     GetPipelineLastProcessedTimestamp(S.ps, faults)) ] }
  ELSE { LET r == PopulateRun(S.ohlc, S.trend, S.ps, S.strategy, t0, faults)
         IN [ store |-> [S EXCEPT !.strategy = r.strategy],
              status |-> r.status ] }

\* the try block of the orchestrator from step i on: each call is awaited
\* before the next one is made; a call that throws ends the block.  A call
\* that throws is taken not to have reached the stage.
RECURSIVE RunSteps(_, _, _, _, _, _)
RunSteps(i, S, results, t0, st, f) ==
  IF i > Len(Steps)
  THEN { [ store |-> S, results |-> results, threw |-> FALSE ] }
  ELSE IF Site("callFunction", 0, Steps[i], 0, 0) \in FaultsAt("callFunction", st, f)
  THEN { [ store |-> S, results |-> results, threw |-> TRUE ] }
  ELSE UNION { RunSteps(i + 1, o.store,
                        Append(results, StepResult(Steps[i], o.status)),
                        t0, st, f) :
               o \in StepOutcomes(Steps[i], S, t0, FaultsAt(Steps[i], st, f)) }

\* the checkpoint table after the calls of updatePipelineStatus of a run
RECURSIVE WriteStatuses(_, _, _, _)
WriteStatuses(ps, calls, t0, faults) ==
  IF Len(calls) = 0 THEN ps
  ELSE WriteStatuses(
         UpdateProcessingState(ps, "pipeline", 0, "global", t0, Head(calls),
                               t0, faults),
         Tail(calls), t0, faults)

\* the orchestrator's handler: the steps, then the status, then the response.
\* The calls of step st fail at the sites f.
PipelineOutcomes(S, t0, st, f) ==
  { LET pipelineSuccess == PipelineSuccess(r.results, r.threw)
        calls == PipelineStatusCalls(pipelineSuccess, r.threw)
    IN [ ohlc |-> r.store.ohlc, signals |-> r.store.signals,
         trend |-> r.store.trend, strategy |-> r.store.strategy,
         ps |-> WriteStatuses(r.store.ps, calls, t0, FaultsAt("status", st, f)),
         success |-> pipelineSuccess,
         results |-> r.results,
         statusCalls |-> calls ] :
    r \in RunSteps(1, S, <<>>, t0, st, f) }

\* the stores after the pipeline ran at each of the instants of a sequence
RECURSIVE StoresAfter(_, _)
StoresAfter(stores, times) ==
  IF Len(times) = 0 THEN stores
  ELSE StoresAfter(
         UNION { { [ ohlc |-> o.ohlc, signals |-> o.signals, trend |-> o.trend,
                     strategy |-> o.strategy, ps |-> o.ps ] : o \in PipelineOutcomes(S, Head(times), "none", {}) } :
                 S \in stores },
         Tail(times))

\* a deployment starts empty, or has run through the previous session day
InitialStores == {EmptyStore} \cup StoresAfter({EmptyStore}, HistoryTimes)

\* what the last run did: the stage, its instant, the status of its
\* response, the checkpoint keys it read, the pairs reported with errors,
\* for a pipeline run the success and results of the response and the
\* statuses passed to updatePipelineStatus, and for a run of the ingestion,
\* indicator or trend stage the entries of allResults, and for a run of the
\* trend stage the previous values its loop compared against, for an
\* aggregation run in flight the rows not yet posted, and the active EMA
\* indicators the indicator stage found
RunRecord(stage, at, status, reads, errors) ==
  [ stage |-> stage, at |-> at, status |-> status, reads |-> reads,
    errors |-> errors, success |-> FALSE, results |-> <<>>,
    statusCalls |-> <<>>, pairs |-> {}, priors |-> {}, pending |-> {},
    indicators |-> {Ema9Id, Ema30Id}, runs |-> <<>> ]

Init ==
  /\ now = ClockTimes[1]
  /\ \E S \in InitialStores :
       /\ ohlc_data = S.ohlc
       /\ signals = S.signals
       /\ ema_trend = S.trend
       /\ strategy = S.strategy
       /\ processing_state = S.ps
  /\ lastRun = RunRecord("none", now, 0, {}, {})

\* the checkpoint keys a run of a step reads
KeysReadBy(step, table, faults) ==
  IF step = "compute_signals"
  THEN { <<"compute_signals", p[1], p[2]>> :
           p \in GetStockTimeframePairs(table, faults) }
  ELSE {PipelineKey}

Tick ==
  /\ \E i \in 1..(Len(ClockTimes) - 1) :
        now = ClockTimes[i] /\ now' = ClockTimes[i + 1]
  /\ UNCHANGED <<ohlc_data, signals, ema_trend, strategy, processing_state,
                 lastRun>>

\* one run of fetch_ohlc, its failing call sites drawn from FS
FetchOhlcF(FS) ==
  /\ \E faults \in FS :
     \E r \in { FetchOhlcRun(ohlc_data, processing_state, now, faults) } :
       /\ ohlc_data' = r.ohlc
       /\ lastRun' = [ RunRecord("fetch_ohlc", now, r.status,
                                  KeysReadBy("fetch_ohlc", ohlc_data, faults),
                                  {})
                        EXCEPT !.pairs = r.results ]
  /\ UNCHANGED <<now, signals, ema_trend, strategy, processing_state>>

\* one run of compute_signals
ComputeSignalsF(FS) ==
  /\ \E faults \in FS :
     \E r \in { ComputeSignalsRun(ohlc_data, signals, processing_state, now,
                                  faults) } :
       /\ signals' = r.signals
       /\ processing_state' = r.ps
       /\ lastRun' = [ RunRecord("compute_signals", now, r.status,
                                  IF r.status = 200
                                  THEN KeysReadBy("compute_signals", ohlc_data,
                                                  faults)
                                  ELSE {},
                                  r.errors)
                        EXCEPT !.pairs = r.results,
                               !.indicators = ActiveIndicators(faults) ]
  /\ UNCHANGED <<now, ohlc_data, ema_trend, strategy>>

\* one run of compute_ema_trend
ComputeEmaTrendF(FS) ==
  /\ \E faults \in FS :
     \E cuts \in [ Pairs -> CandlesSinceCuts(ohlc_data,
                    GetPipelineLastProcessedTimestamp(processing_state,
                                                      faults)) ] :
     \E r \in { ComputeEmaTrendRun(ohlc_data, signals, ema_trend,
                                   processing_state, cuts, faults) } :
       /\ ema_trend' = r.trend
       /\ lastRun' = [ RunRecord("compute_ema_trend", now, r.status,
                                  KeysReadBy("compute_ema_trend", ohlc_data,
                                             faults), {})
                        EXCEPT !.pairs = r.results, !.priors = r.priors ]
  /\ UNCHANGED <<now, ohlc_data, signals, strategy, processing_state>>

\* one run of populate_strategy_9_30_ema
PopulateStrategyF(FS) ==
  /\ \E faults \in FS :
     \E r \in { PopulateRun(ohlc_data, ema_trend, processing_state, strategy,
                            now, faults) } :
       /\ strategy' = r.strategy
       /\ lastRun' = RunRecord("populate_strategy_9_30_ema", now, r.status,
                               KeysReadBy("populate_strategy_9_30_ema",
                                          ohlc_data, faults), {})
  /\ UNCHANGED <<now, ohlc_data, signals, ema_trend, processing_state>>

\* the tables of the current state
Store ==
  [ ohlc |-> ohlc_data, signals |-> signals, trend |-> ema_trend,
    strategy |-> strategy, ps |-> processing_state ]

\* one run of the pipeline; F holds the choices <<step, failing call sites
\* of the step>> of the run
PipelineFS(F) ==
  /\ \E c \in F :
     \E o \in PipelineOutcomes(Store, now, c[1], c[2]) :
       /\ ohlc_data' = o.ohlc
       /\ signals' = o.signals
       /\ ema_trend' = o.trend
       /\ strategy' = o.strategy
       /\ processing_state' = o.ps
       /\ lastRun' = [ RunRecord("pipeline", now,
                                  IF o.success THEN 200 ELSE 500, {}, {})
                        EXCEPT !.success = o.success,
                               !.results = o.results,
                               !.statusCalls = o.statusCalls,
                               !.indicators =
                                 ActiveIndicators(
                                   FaultsAt("compute_signals", c[1], c[2])) ]
  /\ UNCHANGED now

\* one run of the pipeline; the failing call sites lie in one step of ST
PipelineF(ST) ==
  PipelineFS(UNION { { <<st, f>> : f \in FaultSets(st) } : st \in ST })

\* runs in which every call succeeds
FetchOhlc == FetchOhlcF(NoFaults)
ComputeSignals == ComputeSignalsF(NoFaults)
ComputeEmaTrend == ComputeEmaTrendF(NoFaults)
PopulateStrategy == PopulateStrategyF(NoFaults)
Pipeline == PipelineF({"none"})

Next ==
  \/ Tick
  \/ FetchOhlc
  \/ ComputeSignals
  \/ ComputeEmaTrend
  \/ PopulateStrategy
  \/ Pipeline

Spec == Init /\ [][Next]_vars

\* runs of compute_signals in which one call made for the 5-minute series
\* may fail (the calls made for the hourly series are the same code), and
\* pipeline runs in which the write of the pipeline status may fail
SpecSignalFaults ==
  Init /\ [][ \/ Tick
              \/ FetchOhlc
              \/ ComputeSignalsF(PairFaultSets("compute_signals"))
              \/ PipelineF({"status"}) ]_vars

\* scheduled operation: the clock advances and the pipeline runs, and one call
\* of the compute_signals step of a pipeline run may fail
SpecPipelineSignalFaults ==
  Init /\ [][ \/ Tick
              \/ PipelineF({"compute_signals"}) ]_vars

\* scheduled operation in which one call of a pipeline run may fail: a call
\* that makes a stage answer with a failure, a call of the orchestrator to a
\* stage, or the write of the pipeline status
SpecPipelineFaults ==
  Init /\ [][ \/ Tick
              \/ PipelineFS(UNION { { <<st, f>> : f \in StageFailureSets(st) } :
                                    st \in StepSet }
                            \cup UNION { { <<st, f>> : f \in FaultSets(st) } :
                                         st \in {"callFunction", "status"} })
            ]_vars

\* runs of the ingestion, indicator and trend stages in which one call made
\* for one pair may fail
SpecPairFaults ==
  Init /\ [][ \/ Tick
              \/ FetchOhlcF(PairFaultSets("fetch_ohlc"))
              \/ ComputeSignalsF(PairFaultSets("compute_signals"))
              \/ ComputeEmaTrendF(PairFaultSets("compute_ema_trend")) ]_vars

\* inputs of the trend computation: the 5-minute bars of one stock from the
\* session open, a (short, long) EMA pair at each of up to NCandles bars after
\* the first, and a carry-in pair or none at the first bar
TrendTimes == [ k \in 0..NCandles |-> AtIst(BaseDay, 9 * 60 + 15 + 5 * k) ]
ShortValues == {10, 11, 13}
LongValues == {10, 11, 12}
EmaSequences ==
  UNION { [ 1..n -> ShortValues \X LongValues ] : n \in 1..NCandles }
CarryIns == { <<Null, Null>>, <<10, 12>>, <<11, 11>>, <<13, 10>> }

\* the rows of the signals table for one (short, long) pair at a bar
EmaRows(k, pair) ==
  { [ stock_id |-> 1, indicator_id |-> Ema9Id, timeframe |-> "5",
      timestamp |-> TrendTimes[k], value |-> pair[1] ],
    [ stock_id |-> 1, indicator_id |-> Ema30Id, timeframe |-> "5",
      timestamp |-> TrendTimes[k], value |-> pair[2] ] }

\* the tables that hold a sequence and a carry-in: the carry-in is the pair
\* of signals of a bar that the pipeline has already processed
TrendInputStore(carry, seq) ==
  LET bars == IF carry[1] = Null THEN 1..Len(seq) ELSE 0..Len(seq)
  IN [ ohlc |-> { [ timestamp |-> TrendTimes[k], stock_id |-> 1,
                    timeframe |-> "5", close |-> 10 ] : k \in bars },
       signals |-> UNION { EmaRows(k, seq[k]) : k \in 1..Len(seq) }
                   \cup ( IF carry[1] = Null THEN {} ELSE EmaRows(0, carry) ),
       ps |-> IF carry[1] = Null THEN {}
              ELSE UpdateProcessingState({}, "pipeline", 0, "global",
                                         TrendTimes[0] + 2, "completed",
                                         TrendTimes[0] + 2, {}) ]

InitTrendInputs ==
  /\ now = ClockTimes[Len(ClockTimes)]
  /\ \E carry \in CarryIns, seq \in EmaSequences :
       /\ ohlc_data = TrendInputStore(carry, seq).ohlc
       /\ signals = TrendInputStore(carry, seq).signals
       /\ processing_state = TrendInputStore(carry, seq).ps
  /\ ema_trend = {}
  /\ strategy = {}
  /\ lastRun = RunRecord("none", now, 0, {}, {})

SpecTrendInputs == InitTrendInputs /\ [][ComputeEmaTrend]_vars

\* inputs of the trend computation in which a bar may lack signals: the long
\* EMA needs more candles than the short one, so a bar holds no signal, the
\* short one only, or both; the pipeline has processed the first two bars
BarSignals ==
  { <<Null, Null>> } \cup { <<v, Null>> : v \in {10, 13} }
                     \cup { <<v, 11>> : v \in {10, 13} }

\* the rows of the signals table for the values a bar holds
BarRows(k, pair) ==
  { r \in EmaRows(k, pair) : r.value # Null }

InitTrendCarry ==
  /\ now = ClockTimes[Len(ClockTimes)]
  /\ ohlc_data = { [ timestamp |-> TrendTimes[k], stock_id |-> 1,
                     timeframe |-> "5", close |-> 10 ] : k \in 0..NCandles }
  /\ \E f \in [ 0..NCandles -> BarSignals ] :
       signals = UNION { BarRows(k, f[k]) : k \in 0..NCandles }
  /\ processing_state = UpdateProcessingState({}, "pipeline", 0, "global",
                           TrendTimes[1] + 2, "completed", TrendTimes[1] + 2,
                           {})
  /\ ema_trend = {}
  /\ strategy = {}
  /\ lastRun = RunRecord("none", now, 0, {}, {})

SpecTrendCarry == InitTrendCarry /\ [][ComputeEmaTrend]_vars

\* inputs of a first run of the indicator stage: up to NCandles + 1 bars of
\* the 5-minute series of one stock with their closes, no signal and no
\* checkpoint
FirstRunCloses == {10, 11, 13}

InitFirstRun ==
  /\ now = ClockTimes[Len(ClockTimes)]
  /\ \E n \in 1..(NCandles + 1) :
     \E f \in [ 0..(n - 1) -> FirstRunCloses ] :
       ohlc_data = { [ timestamp |-> TrendTimes[k], stock_id |-> 1,
                       timeframe |-> "5", close |-> f[k] ] : k \in 0..(n - 1) }
  /\ signals = {}
  /\ processing_state = {}
  /\ ema_trend = {}
  /\ strategy = {}
  /\ lastRun = RunRecord("none", now, 0, {}, {})

SpecFirstRun == InitFirstRun /\ [][ComputeSignals]_vars

\* Deployments whose indicators table may hold no active EMA indicator and
\* whose ingestion may store nothing: runs of the indicator stage and of the
\* pipeline in which the indicators query returns no row or the stocks query
\* of the ingestion stage fails
SpecConfigErrors ==
  Init /\ [][ \/ Tick
              \/ FetchOhlc
              \/ ComputeSignalsF({ {}, { Site("noActiveIndicators", 0,
                                              "global", 0, 0) } })
              \/ PipelineFS({ <<"none", {}>>,
                              <<"compute_signals",
                                { Site("noActiveIndicators", 0, "global",
                                       0, 0) }>>,
                              <<"fetch_ohlc",
                                { Site("stocks", 0, "global", 0, 0) }>> })
            ]_vars

\* Runs of the ingestion, indicator and trend stages, alone or as a step of
\* a pipeline run, in which the provider call, the first signal upsert or
\* the first trend upsert fails for the 5-minute pair or for every pair
StageCallOf(step) ==
  IF step = "fetch_ohlc" THEN "fetchOHLC"
  ELSE IF step = "compute_signals" THEN "upsertSignals"
  ELSE "upsertTrend"

PairFailures(step) ==
  { { Site(StageCallOf(step), p[1], p[2],
           IF step = "compute_signals" THEN Ema9Id ELSE 0,
           IF step = "fetch_ohlc" THEN 0 ELSE 1) : p \in P } :
    P \in { {<<1, "5">>}, Pairs } }

SpecPairFailures ==
  Init /\ [][ \/ Tick
              \/ FetchOhlcF(PairFailures("fetch_ohlc"))
              \/ ComputeSignalsF(PairFailures("compute_signals"))
              \/ ComputeEmaTrendF(PairFailures("compute_ema_trend"))
              \/ PipelineFS(UNION { { <<st, f>> : f \in PairFailures(st) } :
                                    st \in { "fetch_ohlc", "compute_signals",
                                             "compute_ema_trend" } })
            ]_vars

\* A pair after a first run of the indicator stage over the first k of its
\* n stored candles: the signals and the checkpoint that run wrote, and the
\* remaining candles stored since; the next run processes them as a delta
InitDelta ==
  /\ now = ClockTimes[Len(ClockTimes)]
  /\ \E n \in 2..NCandles :
     \E k \in 1..(n - 1) :
     \E f \in [ 0..(n - 1) -> FirstRunCloses ] :
       LET rows(m) == { [ timestamp |-> TrendTimes[i], stock_id |-> 1,
                          timeframe |-> "5", close |-> f[i] ] :
                        i \in 0..(m - 1) }
           first == ComputeSignalsRun(rows(k), {}, {}, now, {})
       IN /\ ohlc_data = rows(n)
          /\ signals = first.signals
          /\ processing_state = first.ps
  /\ ema_trend = {}
  /\ strategy = {}
  /\ lastRun = RunRecord("none", now, 0, {}, {})

SpecDelta == InitDelta /\ [][ComputeSignals]_vars

\* Runs of the indicator stage in which one call of the indicator loop (the
\* query of the existing signals, an upsert, the prune query or a prune
\* delete) may fail for one indicator of the 5-minute pair
SpecIndicatorFaults ==
  Init /\ [][ \/ Tick
              \/ FetchOhlc
              \/ ComputeSignalsF(
                   NoFaults \cup
                   { {x} : x \in { y \in SitesOf("compute_signals") :
                                     y[3] = "5" /\ y[4] # 0 } }) ]_vars

\* Aggregation runs over stored closes: one candle of the current session
\* day, and none or one candle of the previous session day
CmpValues == {0, 5, 31, 33, 110}
PrevCloses == {0, 3, 32, 100}

InitPercent ==
  /\ now = ClockTimes[1]
  /\ \E cmp \in CmpValues :
     \E tf \in IntervalSet :
     \E prev \in SUBSET PrevCloses :
       /\ Cardinality(prev) <= 1
       /\ ohlc_data =
            { [ timestamp |-> AtIst(BaseDay, 9 * 60 + 15), stock_id |-> 1,
                timeframe |-> "5", close |-> cmp ] }
            \cup { [ timestamp |-> AtIst(PrevDay, 15 * 60 + 25),
                     stock_id |-> 1, timeframe |-> tf, close |-> c ] :
                   c \in prev }
  /\ signals = {}
  /\ processing_state \in
       { {}, { [ stock_id |-> 0, timeframe |-> "global",
                 function_name |-> "pipeline",
                 last_processed_timestamp |-> AtIst(PrevDay, 15 * 60 + 27),
                 status |-> "completed" ] } }
  /\ ema_trend = {}
  /\ strategy = {}
  /\ lastRun = RunRecord("none", now, 0, {}, {})

SpecPercent == InitPercent /\ [][PopulateStrategy]_vars

\* The handler of populate_strategy_9_30_ema request by request, as a reader
\* of the strategy table sees it.  A run is in flight between its DELETE and
\* its last POST; lastRun.pending holds the strategyData rows not yet posted.
InFlight ==
  lastRun.stage = "populate_strategy_9_30_ema" /\ lastRun.status = Null

\* const batchSize = 100
BatchSize == 100

\* the reads of the handler and its DELETE of the whole table; with no new
\* candle the handler returns before the DELETE
PopulateClear ==
  /\ ~ InFlight
  /\ LET last == GetPipelineLastProcessedTimestamp(processing_state, {})
         data == StrategyData(ohlc_data, ema_trend, last, now)
         reads == KeysReadBy("populate_strategy_9_30_ema", ohlc_data, {})
     IN IF NewerThan(ohlc_data, last) = {}
        THEN /\ strategy' = strategy
             /\ lastRun' = RunRecord("populate_strategy_9_30_ema", now, 200,
                                     reads, {})
        ELSE /\ strategy' = {}
             /\ lastRun' = [ RunRecord("populate_strategy_9_30_ema", now,
                                       Null, reads, {})
                             EXCEPT !.pending = data ]
  /\ UNCHANGED <<now, ohlc_data, signals, ema_trend, processing_state>>

\* one POST of the insert loop: the next batchSize rows; the response is
\* sent after the last batch
PopulateInsert ==
  /\ InFlight
  /\ \E batch \in SUBSET lastRun.pending :
       /\ Cardinality(batch) =
            IF Cardinality(lastRun.pending) < BatchSize
            THEN Cardinality(lastRun.pending) ELSE BatchSize
       /\ strategy' = strategy \cup batch
       /\ lastRun' = [ lastRun EXCEPT
                         !.pending = lastRun.pending \ batch,
                         !.status = IF lastRun.pending \ batch = {}
                                    THEN 200 ELSE Null ]
  /\ UNCHANGED <<now, ohlc_data, signals, ema_trend, processing_state>>

\* the other stages run between two aggregation runs
SpecRebuild ==
  Init /\ [][ \/ PopulateClear
              \/ PopulateInsert
              \/ ~ InFlight /\ Tick
              \/ ~ InFlight /\ FetchOhlc
              \/ ~ InFlight /\ ComputeSignals
              \/ ~ InFlight /\ ComputeEmaTrend ]_vars

(***************************************************************************)
(* Overlapping runs.  A run of a stage works on a pair call by call; the   *)
(* store serialises the calls of the runs in flight in any order.          *)
(* lastRun.runs holds, for each run in flight or finished, its position    *)
(* and its local variables.                                                *)
(***************************************************************************)
\* the pair the overlapping runs work on
OverlapPair == <<1, "5">>

\* a run that has not started
IdleRun ==
  [ stage |-> "none", pc |-> "idle", base |-> {}, lastProcessed |-> Epoch1970,
    lastOhlc |-> Epoch1970, newCandles |-> <<>>, ind |-> 1, chunks |-> <<>>,
    deletes |-> <<>>, log |-> <<>>, wrote |-> Null ]

RunOf(r) == IF r \in DOMAIN lastRun.runs THEN lastRun.runs[r] ELSE IdleRun

\* a loop that writes the checkpoint after every indicator
AfterIndicator_CheckpointEach(q) ==
  [ q EXCEPT !.pc = "updateProcessingState" ]

\* the position after the prune of an indicator: the next indicator of the
\* loop, or the write of the checkpoint after the loop
AfterIndicator(q) ==
  IF q.ind < Len(IndicatorIds)
  THEN [ q EXCEPT !.ind = q.ind + 1, !.pc = "existingSignals" ]
  ELSE [ q EXCEPT !.pc = "updateProcessingState" ]

\* the next call of processStockTimeframe of compute_signals for the run q
\* on the tables S: the run and the tables after the call
SignalsPairStep(q, S, t0) ==
  LET s == OverlapPair[1]
      tf == OverlapPair[2]
      ind == IndicatorIds[q.ind]
      logged == [ q EXCEPT !.log = Append(q.log, q.pc) ]
  IN IF q.pc = "getProcessingState"
     THEN [ run |-> [ logged EXCEPT
                        !.lastProcessed =
                          LastProcessedOf(GetProcessingState(S.ps,
                            "compute_signals", s, tf, {})),
                        !.pc = "getNewCandles" ],
            store |-> S ]
     ELSE IF q.pc = "getNewCandles"
     THEN LET newCandles ==
                LastN(SortAsc(NewerThan(Series(S.ohlc, s, tf),
                                        q.lastProcessed)), NCandles)
          IN [ run |-> [ logged EXCEPT
                           !.newCandles = newCandles,
                           !.ind = 1,
                           !.pc = IF Len(newCandles) = 0 THEN "done"
                                  ELSE "existingSignals" ],
               store |-> S ]
     ELSE IF q.pc = "existingSignals"
     THEN LET existingTimestamps ==
                { r.timestamp : r \in SignalSeries(S.signals, s, ind, tf) }
              chunks == Chunks(SortAsc(NewSignals(q.newCandles,
                                 existingTimestamps, s, ind, tf)))
          IN [ run |-> [ logged EXCEPT
                           !.chunks = chunks,
                           !.pc = IF Len(chunks) = 0 THEN "pruneQuery"
                                  ELSE "upsertSignals" ],
               store |-> S ]
     ELSE IF q.pc = "upsertSignals"
     THEN [ run |-> [ logged EXCEPT
                        !.chunks = Tail(q.chunks),
                        !.pc = IF Len(q.chunks) = 1 THEN "pruneQuery"
                               ELSE "upsertSignals" ],
            store |-> [ S EXCEPT !.signals =
                          UpsertSignals(S.signals, SeqToSet(Head(q.chunks))) ] ]
     ELSE IF q.pc = "pruneQuery"
     THEN LET allSignals == SortDesc(SignalSeries(S.signals, s, ind, tf))
              deletes == IF Len(allSignals) > MaxSignals
                         THEN Chunks(DropFirst(allSignals, MaxSignals))
                         ELSE <<>>
          IN [ run |-> IF Len(deletes) = 0
                       THEN AfterIndicator(logged)
                       ELSE [ logged EXCEPT !.deletes = deletes,
                                            !.pc = "pruneDelete" ],
               store |-> S ]
     ELSE IF q.pc = "pruneDelete"
     THEN [ run |-> IF Len(q.deletes) = 1
                    THEN AfterIndicator([ logged EXCEPT !.deletes = <<>> ])
                    ELSE [ logged EXCEPT !.deletes = Tail(q.deletes) ],
            store |-> [ S EXCEPT !.signals =
                          { r \in S.signals :
                              ~ \E d \in SeqToSet(Head(q.deletes)) :
                                  /\ r.stock_id = s
                                  /\ r.indicator_id = ind
                                  /\ r.timeframe = tf
                                  /\ r.timestamp = d.timestamp } ] ]
     ELSE \* updateProcessingState, reached after the last indicator: the
          \* result is returned after it
          [ run |-> [ logged EXCEPT
                        !.pc = IF q.ind < Len(IndicatorIds)
                               THEN "existingSignals" ELSE "done",
                        !.ind = IF q.ind < Len(IndicatorIds)
                                THEN q.ind + 1 ELSE q.ind,
                        !.wrote = LatestTimestamp(q.newCandles) ],
            store |-> [ S EXCEPT !.ps =
                          UpdateProcessingState(S.ps, "compute_signals", s, tf,
                            LatestTimestamp(q.newCandles), "completed", t0,
                            {}) ] ]

\* the next call of the handler and processStock of fetch_ohlc for the run q
IngestPairStep(q, S, t0) ==
  LET s == OverlapPair[1]
      tf == OverlapPair[2]
      series == Series(S.ohlc, s, tf)
      logged == [ q EXCEPT !.log = Append(q.log, q.pc) ]
  IN IF q.pc = "getPipelineLastProcessedTimestamp"
     THEN [ run |-> [ logged EXCEPT
                        !.lastProcessed =
                          GetPipelineLastProcessedTimestamp(S.ps, {}),
                        !.pc = "lastOhlc" ],
            store |-> S ]
     ELSE IF q.pc = "lastOhlc"
     THEN [ run |-> [ logged EXCEPT
                        !.lastOhlc = IF series = {} THEN Epoch1970
                                     ELSE Max({ r.timestamp : r \in series }),
                        !.pc = "existingCandles" ],
            store |-> S ]
     ELSE IF q.pc = "existingCandles"
     THEN [ run |-> [ logged EXCEPT
                        !.pc = IF NewerThan(series, q.lastProcessed) # {}
                               THEN "done" ELSE "fetchOHLC" ],
            store |-> S ]
     ELSE IF q.pc = "fetchOHLC"
     THEN LET candles == FetchOHLC(s, tf,
                           CalculateFromDate(q.lastOhlc, tf, t0),
                           GetCurrentTimeIST(t0), t0)
          IN [ run |-> [ logged EXCEPT
                           !.chunks = Chunks(SortAsc(candles)),
                           !.pc = IF candles = {} THEN "done"
                                  ELSE "upsertOhlc" ],
               store |-> S ]
     ELSE [ run |-> [ logged EXCEPT
                        !.chunks = Tail(q.chunks),
                        !.pc = IF Len(q.chunks) = 1 THEN "done"
                               ELSE "upsertOhlc" ],
            store |-> [ S EXCEPT !.ohlc =
                          UpsertOhlc(S.ohlc, SeqToSet(Head(q.chunks))) ] ]

\* a trigger starts the run r of a stage; the run remembers the tables it
\* started on
StartRun(r, stage) ==
  /\ RunOf(r).pc = "idle"
  /\ lastRun' = [ lastRun EXCEPT !.runs =
                    [ x \in DOMAIN lastRun.runs \cup {r} |->
                        IF x = r
                        THEN [ IdleRun EXCEPT
                                 !.stage = stage,
                                 !.base = Store,
                                 !.pc = IF stage = "fetch_ohlc"
                                        THEN "getPipelineLastProcessedTimestamp"
                                        ELSE "getProcessingState" ]
                        ELSE lastRun.runs[x] ] ]
  /\ UNCHANGED <<now, ohlc_data, signals, ema_trend, strategy,
                 processing_state>>

\* the store serves the next call of the run r
RunStep(r) ==
  /\ RunOf(r).pc \notin { "idle", "done" }
  /\ LET o == IF RunOf(r).stage = "fetch_ohlc"
              THEN IngestPairStep(RunOf(r), Store, now)
              ELSE SignalsPairStep(RunOf(r), Store, now)
     IN /\ ohlc_data' = o.store.ohlc
        /\ signals' = o.store.signals
        /\ processing_state' = o.store.ps
        /\ lastRun' = [ lastRun EXCEPT !.runs = [ lastRun.runs EXCEPT ![r] = o.run ] ]
  /\ UNCHANGED <<now, ema_trend, strategy>>

\* two ingestion runs triggered while the wall clock advances
SpecOverlapIngest ==
  Init /\ [][ \/ Tick
              \/ \E r \in { "fetch1", "fetch2" } : StartRun(r, "fetch_ohlc")
              \/ \E r \in { "fetch1", "fetch2" } : RunStep(r) ]_vars

\* two indicator runs triggered while an ingestion run stores candles
SpecOverlapSignals ==
  Init /\ [][ \/ Tick
              \/ StartRun("fetch1", "fetch_ohlc")
              \/ \E r \in { "signals1", "signals2" } :
                   StartRun(r, "compute_signals")
              \/ \E r \in { "fetch1", "signals1", "signals2" } : RunStep(r) ]_vars

(***************************************************************************)
(* The batch loop of the handlers of fetch_ohlc, compute_signals and       *)
(* compute_ema_trend: the items (stocks or pairs) are numbered in the      *)
(* order of the query's answer; lastRun.runs holds the loop index, the     *)
(* items whose processing has started and finished, and the batches after  *)
(* which the handler slept.                                                *)
(***************************************************************************)
\* the most items a run is given
MaxItems == 11

\* every item in one batch
BatchSizeOf_AllAtOnce(stage) == MaxItems

\* const batchSize = 5 (fetch_ohlc), const batchSize = 10 (the other two)
BatchSizeOf(stage) == IF stage = "fetch_ohlc" THEN 5 ELSE 10

InitBatches ==
  /\ now = ClockTimes[1]
  /\ ohlc_data = {}
  /\ signals = {}
  /\ ema_trend = {}
  /\ strategy = {}
  /\ processing_state = {}
  /\ \E stage \in { "fetch_ohlc", "compute_signals", "compute_ema_trend" } :
     \E n \in 1..MaxItems :
       lastRun = [ RunRecord(stage, now, Null, {}, {}) EXCEPT
                     !.runs = [ items |-> n, i |-> 0, started |-> {},
                                finished |-> {}, delays |-> <<>>,
                                pc |-> "loop" ] ]

\* batch.map(...): the handler starts every item of the slice
\* [i, i + batchSize) and awaits them all
BatchStart ==
  /\ lastRun.runs.pc = "loop"
  /\ lastRun' = [ lastRun EXCEPT
                    !.runs.started =
                      @ \cup { k \in 1..lastRun.runs.items :
                                 /\ lastRun.runs.i < k
                                 /\ k <= lastRun.runs.i
                                           + BatchSizeOf(lastRun.stage) },
                    !.runs.pc = "await" ]
  /\ UNCHANGED <<now, ohlc_data, signals, ema_trend, strategy,
                 processing_state>>

\* the processing of a started item returns
ItemFinish ==
  /\ lastRun.runs.pc = "await"
  /\ \E k \in lastRun.runs.started \ lastRun.runs.finished :
       lastRun' = [ lastRun EXCEPT !.runs.finished = @ \cup {k} ]
  /\ UNCHANGED <<now, ohlc_data, signals, ema_trend, strategy,
                 processing_state>>

\* Promise.all resolves when every item of the batch has returned; the
\* ingestion handler then sleeps if a batch is left, the loop goes on or the
\* handler responds
BatchEnd ==
  /\ lastRun.runs.pc = "await"
  /\ lastRun.runs.started \subseteq lastRun.runs.finished
  /\ LET next == lastRun.runs.i + BatchSizeOf(lastRun.stage)
     IN lastRun' =
          IF lastRun.stage = "fetch_ohlc" /\ next < lastRun.runs.items
          THEN [ lastRun EXCEPT !.runs.pc = "sleep" ]
          ELSE [ lastRun EXCEPT
                   !.runs.i = next,
                   !.runs.pc = IF next < lastRun.runs.items THEN "loop"
                               ELSE "done",
                   !.status = IF next < lastRun.runs.items THEN Null
                              ELSE 200 ]
  /\ UNCHANGED <<now, ohlc_data, signals, ema_trend, strategy,
                 processing_state>>

\* await sleep(1000) of fetch_ohlc
Sleep ==
  /\ lastRun.runs.pc = "sleep"
  /\ lastRun' = [ lastRun EXCEPT
                    !.runs.delays = Append(@, lastRun.runs.i),
                    !.runs.i = @ + BatchSizeOf(lastRun.stage),
                    !.runs.pc = "loop" ]
  /\ UNCHANGED <<now, ohlc_data, signals, ema_trend, strategy,
                 processing_state>>

SpecBatches ==
  InitBatches /\ [][ BatchStart \/ ItemFinish \/ BatchEnd \/ Sleep ]_vars

(***************************************************************************)
(* Claims                                                                  *)
(***************************************************************************)
\* C1: for every checkpoint key (stage, instrument, timeframe), across any
\* sequence of non-overlapping stage runs and pipeline runs, the key's
\* last_processed_timestamp after a run is greater than or equal to its
\* value before the run.
C1_CheckpointMonotone ==
  [][ \A r \in processing_state : \A q \in processing_state' :
        ( /\ q.function_name = r.function_name
          /\ q.stock_id = r.stock_id
          /\ q.timeframe = r.timeframe )
        => q.last_processed_timestamp >= r.last_processed_timestamp ]_vars

\* a compute_signals run has moved the checkpoint of the 5-minute series from
\* the previous session day to a bar of the current one
C1_Witness ==
  /\ lastRun.stage = "compute_signals"
  /\ \E c \in Series(ohlc_data, 1, "5") : IstDay(c.timestamp) = PrevDay
  /\ \E r \in StateRows(processing_state, "compute_signals", 1, "5") :
       IstDay(r.last_processed_timestamp) = BaseDay

\* C2: no stage (ingestion, indicator, trend, aggregation) reads the
\* pipeline-level checkpoint (pipeline, 0, global) to decide which data to
\* fetch or process; each stage decides from its own checkpoint key.
C2_NoStageReadsPipelineKey ==
  lastRun.stage \in StepSet => PipelineKey \notin lastRun.reads

\* C3: which candles the trend and aggregation stages process depends only on
\* the stored series and on checkpoints of data timestamps, not on the wall
\* clock: had the previous pipeline run finished at another instant between
\* its finish and now, the next run would select exactly the same candles.
C3_SelectionIgnoresFinishInstant ==
  LET rows == StateRows(processing_state, "pipeline", 0, "global")
      finish == LastProcessedOf(rows)
  IN rows # {} =>
       \A w \in ClockSet :
         (finish <= w /\ w <= now) =>
           /\ CandlesSinceCuts(ohlc_data, w) = CandlesSinceCuts(ohlc_data, finish)
           /\ NewerThan(ohlc_data, w) = NewerThan(ohlc_data, finish)

\* C4: running the ingestion stage twice against an unchanged upstream
\* response set leaves the candle table with no two rows sharing (instrument,
\* timeframe, timestamp), with the same rows as after the first run, and with
\* every ingestion checkpoint unchanged by the second run.
C4_IdempotentIngestion ==
  [][ /\ lastRun'.stage = "fetch_ohlc" =>
           \A a \in ohlc_data' : \A b \in ohlc_data' :
             ( /\ a.stock_id = b.stock_id /\ a.timeframe = b.timeframe
               /\ a.timestamp = b.timestamp ) => a = b
      /\ ( /\ lastRun.stage = "fetch_ohlc" /\ lastRun.status = 200
           /\ lastRun.at = now /\ now' = now
           /\ lastRun'.stage = "fetch_ohlc" )
         => /\ ohlc_data' = ohlc_data
            /\ { r \in processing_state' : r.function_name = "fetch_ohlc" }
                 = { r \in processing_state : r.function_name = "fetch_ohlc" }
    ]_vars

\* an ingestion run has merged the final close of the day's first 5-minute
\* bar over the forming close stored by the pipeline run of 09:17
C4_Witness ==
  /\ lastRun.stage = "fetch_ohlc" /\ lastRun.status = 200 /\ lastRun.at = now
  /\ LastProcessedOf(StateRows(processing_state, "pipeline", 0, "global"))
       = ClockTimes[1]
  /\ \E r \in Series(ohlc_data, 1, "5") :
       /\ r.timestamp = AtIst(BaseDay, OpenMinutes)
       /\ r.close = ProviderClose(1, "5", r.timestamp, now)
       /\ r.close # ProviderClose(1, "5", r.timestamp, ClockTimes[1])

\* C5: after any ingestion run, every (instrument, timeframe) has at most
\* N = 210 stored candles: the oldest excess rows are deleted before the run
\* ends.
C5_CandleRetention ==
  lastRun.stage \in {"fetch_ohlc", "pipeline"} =>
    \A p \in Pairs : Cardinality(Series(ohlc_data, p[1], p[2])) <= NCandles

C7_TrendRetention ==
  lastRun.stage \in {"compute_ema_trend", "pipeline"} =>
    \A p \in Pairs : Cardinality(TrendSeries(ema_trend, p[1], p[2])) <= MaxSignals

\* C8: no bar whose timestamp falls outside the 09:15-15:30 local session
\* window, or on a non-session day, is ever written to the candle table,
\* whatever bars the provider returns.
C8_SessionBarsOnly ==
  \A r \in ohlc_data :
    /\ IstMinutes(r.timestamp) >= OpenMinutes
    /\ IstMinutes(r.timestamp) <= CloseMinutes
    /\ GetUTCDay(IstDay(r.timestamp)) \notin {0, 6}

\* C9: if a Signal upsert fails for a pair during an indicator-stage run, that
\* pair's compute_signals checkpoint is not advanced in that run, so the same
\* candles are selected as new in the next run.
C9_FailedUpsertKeepsCheckpoint ==
  [][ \A p \in Pairs :
        (lastRun'.stage = "compute_signals" /\ p \in lastRun'.errors)
        => /\ StateRows(processing_state', "compute_signals", p[1], p[2])
                = StateRows(processing_state, "compute_signals", p[1], p[2])
           /\ GetNewCandlesSinceLastProcessed(ohlc_data', processing_state',
                "compute_signals", p[1], p[2], {})
                = GetNewCandlesSinceLastProcessed(ohlc_data, processing_state,
                    "compute_signals", p[1], p[2], {})
    ]_vars

\* C10: the indicator-stage checkpoint of a pair never runs ahead of what was
\* written downstream: if the compute_signals checkpoint of a pair holds
\* timestamp t, a Signal of that pair with timestamp t has been persisted.
C10_CheckpointBackedBySignal ==
  \A r \in processing_state :
    r.function_name = "compute_signals" =>
      \E g \in signals : /\ g.stock_id = r.stock_id
                         /\ g.timeframe = r.timeframe
                         /\ g.timestamp = r.last_processed_timestamp

\* C11: in an indicator-stage run in which all store calls succeed, for every
\* pair and every active indicator of period p, each candle newer than the
\* pair's checkpoint that has at least p stored candles up to and including
\* it gets a Signal stored at its timestamp (the EMA window is seeded from the
\* preceding stored history).  Stated for the candles the retention of M
\* signals leaves room for.
C11_SignalForEveryNewCandle ==
  [][ ( lastRun'.stage = "compute_signals" /\ lastRun'.status = 200 ) =>
        \A p \in Pairs : \A ind \in {Ema9Id, Ema30Id} :
          LET series == Series(ohlc_data, p[1], p[2])
              newCandles == GetNewCandlesSinceLastProcessed(ohlc_data,
                              processing_state, "compute_signals", p[1], p[2], {})
          IN \A i \in 1..Len(newCandles) :
               ( /\ i > Len(newCandles) - MaxSignals
                 /\ Cardinality({ c \in series :
                                    c.timestamp <= newCandles[i].timestamp })
                      >= PeriodOf(ind) )
               => \E g \in SignalSeries(signals', p[1], ind, p[2]) :
                    g.timestamp = newCandles[i].timestamp
    ]_vars

\* C12: the indicator stage never changes a Signal that is already stored:
\* for every (instrument, indicator, timeframe, timestamp) present before a
\* run and still retained after it, the stored value after the run equals the
\* stored value before it.
C12_StoredSignalsUnchanged ==
  [][ lastRun'.stage \in {"compute_signals", "pipeline"} =>
        \A g \in signals : \A h \in signals' :
          ( /\ h.stock_id = g.stock_id /\ h.indicator_id = g.indicator_id
            /\ h.timeframe = g.timeframe /\ h.timestamp = g.timestamp )
          => h.value = g.value
    ]_vars

\* C13: after an ingestion run (respectively a trend-stage run) that persisted
\* rows for a pair, that stage's own checkpoint row for the pair exists and
\* holds the timestamp of the latest candle retained (respectively the latest
\* timestamp processed).
C13_StageCheckpointWritten ==
  [][ \A p \in Pairs :
        /\ ( /\ lastRun'.stage = "fetch_ohlc"
             /\ Series(ohlc_data', p[1], p[2]) # Series(ohlc_data, p[1], p[2]) )
           => \E r \in StateRows(processing_state', "fetch_ohlc", p[1], p[2]) :
                r.last_processed_timestamp =
                  Max({ c.timestamp : c \in Series(ohlc_data', p[1], p[2]) })
        /\ ( /\ lastRun'.stage = "compute_ema_trend"
             /\ TrendSeries(ema_trend', p[1], p[2])
                  # TrendSeries(ema_trend, p[1], p[2]) )
           => \E r \in StateRows(processing_state', "compute_ema_trend",
                                 p[1], p[2]) :
                r.last_processed_timestamp =
                  Max({ c.timestamp : c \in TrendSeries(ema_trend', p[1], p[2]) })
    ]_vars

\* C14: every stored candle of a pair for which both the short and the long
\* EMA Signal exist has a TrendRecord after the next trend-stage run in which
\* all store calls succeed, for any number of pairs that have new candles in
\* that run.
C14_TrendForEverySignalledCandle ==
  [][ ( lastRun'.stage = "compute_ema_trend" /\ lastRun'.status = 200 ) =>
        \A c \in ohlc_data :
          ( /\ \E g \in SignalSeries(signals, c.stock_id, Ema9Id, c.timeframe) :
                 g.timestamp = c.timestamp
            /\ \E g \in SignalSeries(signals, c.stock_id, Ema30Id, c.timeframe) :
                 g.timestamp = c.timestamp )
          => \E t \in TrendSeries(ema_trend', c.stock_id, c.timeframe) :
               t.timestamp = c.timestamp
    ]_vars

\* C15: in every pipeline run the orchestrator calls the stages in the fixed
\* order fetch_ohlc, compute_signals, compute_ema_trend,
\* populate_strategy_9_30_ema, and never starts a stage before the previous
\* stage's call has returned: the results come in that order, and in a run
\* whose four calls returned ok the indicator stage has seen the candles the
\* ingestion stage stored and the aggregation stage has seen the candles and
\* the trend records of the run.
C15_StagesInOrder ==
  [][ lastRun'.stage = "pipeline" =>
        LET results == lastRun'.results
            order == << "fetch_ohlc", "compute_signals", "compute_ema_trend",
                        "populate_strategy_9_30_ema" >>
            last == GetPipelineLastProcessedTimestamp(processing_state, {})
        IN /\ Len(results) <= Len(order)
           /\ \A i \in 1..Len(results) : results[i].step = order[i]
           /\ ( Len(results) = Len(order) /\ \A i \in 1..Len(results) : results[i].ok )
              => /\ \A p \in Pairs :
                      Series(ohlc_data', p[1], p[2]) # {} =>
                        LastProcessedOf(StateRows(processing_state',
                                          "compute_signals", p[1], p[2]))
                          = Max({ c.timestamp : c \in Series(ohlc_data', p[1], p[2]) })
                 /\ NewerThan(ohlc_data', last) # {} =>
                      strategy' = StrategyData(ohlc_data', ema_trend', last, now)
    ]_vars

\* a pipeline run after the close has fetched the 15:35 bar, stored both its
\* signals and its trend record, and published it as the current price
C15_Witness ==
  /\ lastRun.stage = "pipeline" /\ lastRun.success /\ Len(lastRun.results) = 4
  /\ lastRun.at = AtIst(BaseDay, 15 * 60 + 40)
  /\ \E t \in TrendSeries(ema_trend, 1, "5") :
       t.timestamp = AtIst(BaseDay, 15 * 60 + 35)
  /\ \E r \in strategy : r.cmp_timestamp = AtIst(BaseDay, 15 * 60 + 35)

\* C16: in every pipeline run all four stages are invoked and the response
\* lists one outcome per stage, whatever way an earlier stage failed (a
\* non-2xx response or a call that fails outright).
C16_OneOutcomePerStage ==
  lastRun.stage = "pipeline" =>
    /\ Len(lastRun.results) = 4
    /\ { lastRun.results[i].step : i \in 1..Len(lastRun.results) } = StepSet

\* C17: the success field of the orchestrator's response is true exactly when
\* all four stage calls returned ok, and false otherwise.
C17_SuccessIffAllOk ==
  lastRun.stage = "pipeline" =>
    ( lastRun.success <=>
        /\ Len(lastRun.results) = 4
        /\ \A i \in 1..Len(lastRun.results) : lastRun.results[i].ok )

\* a pipeline run whose first stage answered with a failure and whose last
\* stage answered ok reports no success
C17_Witness ==
  /\ lastRun.stage = "pipeline" /\ ~ lastRun.success
  /\ Len(lastRun.results) = 4
  /\ ~ lastRun.results[1].ok /\ lastRun.results[4].ok

\* C18: every pipeline run, successful or not, upserts the checkpoint row
\* keyed (pipeline, 0, global) exactly once, with status completed when the
\* run's success is true and failed when it is false; there is never more
\* than one row with that key.  When the store refuses the write the row is
\* left as it was.
C18_PipelineStatusOnce ==
  /\ [](Cardinality(StateRows(processing_state, "pipeline", 0, "global")) <= 1)
  /\ [][ lastRun'.stage = "pipeline" =>
           LET expected == IF lastRun'.success THEN "completed" ELSE "failed"
               before == StateRows(processing_state, "pipeline", 0, "global")
               after == StateRows(processing_state', "pipeline", 0, "global")
           IN /\ lastRun'.statusCalls = << expected >>
              /\ \/ after = before
                 \/ after = { [ function_name |-> "pipeline", stock_id |-> 0,
                                timeframe |-> "global",
                                last_processed_timestamp |-> now,
                                status |-> expected ] }
       ]_vars

\* a pipeline run in which a call to a stage threw has recorded the status
\* failed at its instant
C18_Witness ==
  /\ lastRun.stage = "pipeline" /\ ~ lastRun.success
  /\ Len(lastRun.results) < 4
  /\ \E r \in StateRows(processing_state, "pipeline", 0, "global") :
       r.status = "failed" /\ r.last_processed_timestamp = lastRun.at

\* C19: in a run of the ingestion, indicator or trend stage, a call that
\* fails while one pair is processed is recorded in the result the stage
\* lists for that pair, and every other pair is processed as in a run without
\* the failure
C19_PairFailureRecordedOthersProcessed ==
  [][ ( /\ lastRun'.stage \in {"fetch_ohlc", "compute_signals",
                               "compute_ema_trend"}
        /\ lastRun'.status = 200 )
      => /\ \A x \in lastRun'.pairs :
              x.failure => x.result \in {"error", "upsert_failed", "errors"}
         /\ \A p \in ( IF lastRun'.stage = "fetch_ohlc" THEN Pairs
                       ELSE GetStockTimeframePairs(ohlc_data, {}) ) :
              \E x \in lastRun'.pairs :
                /\ x.pair = p
                /\ ~ x.failure =>
                     IF lastRun'.stage = "fetch_ohlc"
                     THEN Series(ohlc_data', p[1], p[2])
                          = Series(FetchOhlcRun(ohlc_data, processing_state,
                                                now, {}).ohlc, p[1], p[2])
                     ELSE IF lastRun'.stage = "compute_signals"
                     THEN LET r == ComputeSignalsRun(ohlc_data, signals,
                                                     processing_state, now, {})
                          IN /\ \A i \in 1..Len(IndicatorIds) :
                                  SignalSeries(signals', p[1], IndicatorIds[i], p[2])
                                  = SignalSeries(r.signals, p[1], IndicatorIds[i], p[2])
                             /\ StateRows(processing_state', "compute_signals",
                                          p[1], p[2])
                                = StateRows(r.ps, "compute_signals", p[1], p[2])
                     ELSE \E cuts \in [ Pairs -> CandlesSinceCuts(ohlc_data,
                                          GetPipelineLastProcessedTimestamp(
                                            processing_state, {})) ] :
                            TrendSeries(ema_trend', p[1], p[2])
                            = TrendSeries(ComputeEmaTrendRun(ohlc_data, signals,
                                            ema_trend, processing_state, cuts,
                                            {}).trend, p[1], p[2])
    ]_vars

\* C20: for every ascending sequence of (short, long) EMA pairs and every
\* carry-in pair, the trend stage stores one record per timestamp with
\* trend Bullish if short >= long and Bearish otherwise, and with crossover
\* Bullish if the prior short < the prior long and short >= long, Bearish if
\* the prior short > the prior long and short <= long, and null otherwise
\* (the prior pair of the first point is the carry-in, and without a carry-in
\* its crossover is null); the sequence (10,12), (11,11), (13,10) without
\* carry-in gives the trends Bearish, Bullish, Bullish and a Bullish
\* crossover at the second point only
C20_TrendAndCrossover ==
  lastRun.stage = "compute_ema_trend" =>
    LET n == Cardinality({ k \in 1..NCandles :
                             \E c \in ohlc_data : c.timestamp = TrendTimes[k] })
        valueAt(ind, k) ==
          (CHOOSE r \in signals : /\ r.indicator_id = ind
                                  /\ r.timestamp = TrendTimes[k]).value
        short(k) == valueAt(Ema9Id, k)
        long(k) == valueAt(Ema30Id, k)
        hasPrior(k) == k > 1 \/ \E r \in signals : r.timestamp = TrendTimes[0]
        recordAt(k) == { r \in ema_trend : /\ r.stock_id = 1
                                          /\ r.timeframe = "5"
                                          /\ r.timestamp = TrendTimes[k] }
        example == /\ n = 3
                   /\ ~ hasPrior(1)
                   /\ <<short(1), long(1)>> = <<10, 12>>
                   /\ <<short(2), long(2)>> = <<11, 11>>
                   /\ <<short(3), long(3)>> = <<13, 10>>
    IN /\ Cardinality(ema_trend) = n
       /\ \A k \in 1..n :
            \E r \in recordAt(k) :
              /\ r.ema_9 = short(k) /\ r.ema_30 = long(k)
              /\ r.trend = IF short(k) >= long(k) THEN "Bullish" ELSE "Bearish"
              /\ r.crossover =
                   IF hasPrior(k) /\ short(k - 1) < long(k - 1)
                                  /\ short(k) >= long(k)
                   THEN "Bullish"
                   ELSE IF hasPrior(k) /\ short(k - 1) > long(k - 1)
                                       /\ short(k) <= long(k)
                   THEN "Bearish"
                   ELSE "null"
       /\ example =>
            /\ \A r \in recordAt(1) : r.trend = "Bearish" /\ r.crossover = "null"
            /\ \A r \in recordAt(2) : r.trend = "Bullish" /\ r.crossover = "Bullish"
            /\ \A r \in recordAt(3) : r.trend = "Bullish" /\ r.crossover = "null"

\* the trend stage has run on the sequence (10,12), (11,11), (13,10) without
\* carry-in and has stored its three records
C20_Witness ==
  /\ lastRun.stage = "compute_ema_trend"
  /\ processing_state = {}
  /\ signals = EmaRows(1, <<10, 12>>) \cup EmaRows(2, <<11, 11>>)
               \cup EmaRows(3, <<13, 10>>)
  /\ { <<r.timestamp, r.trend, r.crossover>> : r \in ema_trend }
     = { <<TrendTimes[1], "Bearish", "null">>,
         <<TrendTimes[2], "Bullish", "Bullish">>,
         <<TrendTimes[3], "Bullish", "null">> }

\* C21: when no short and no long EMA value is stored before the batch, the
\* first timestamp of the batch gets a record with a trend and with a null
\* crossover, whatever its short and long values are
C21_FirstPointWithoutCarryIn ==
  ( /\ lastRun.stage = "compute_ema_trend"
    /\ ~ \E r \in signals : r.timestamp < TrendTimes[1] )
  => \E r \in TrendSeries(ema_trend, 1, "5") :
       /\ r.timestamp = TrendTimes[1]
       /\ r.trend \in {"Bullish", "Bearish"}
       /\ r.crossover = "null"

\* the stage has run on a batch without carry-in whose first point has the
\* short value below the long one and whose second point has it above
C21_Witness ==
  /\ lastRun.stage = "compute_ema_trend"
  /\ ~ \E r \in signals : r.timestamp < TrendTimes[1]
  /\ EmaRows(1, <<10, 12>>) \cup EmaRows(2, <<13, 10>>) \subseteq signals
  /\ \E r \in ema_trend : /\ r.timestamp = TrendTimes[1]
                          /\ r.trend = "Bearish"
                          /\ r.crossover = "null"
  /\ \E r \in ema_trend : /\ r.timestamp = TrendTimes[2]
                          /\ r.crossover = "Bullish"

\* C22: whenever the trend stage compares a timestamp against a prior
\* (short, long) pair, the two values of the pair belong to one and the same
\* timestamp, and that timestamp is the one immediately preceding in the
\* series of the pair (for the first timestamp of a batch, the most recent
\* one before the batch)
C22_PriorPairOfOneTimestamp ==
  lastRun.stage = "compute_ema_trend" =>
    \A e \in lastRun.priors :
      ( e.prev9At # Null /\ e.prev30At # Null ) =>
        LET earlier == { c.timestamp :
                           c \in { d \in Series(ohlc_data, e.pair[1], e.pair[2]) :
                                     d.timestamp < e.timestamp } }
        IN /\ e.prev9At = e.prev30At
           /\ earlier # {}
           /\ \A t \in earlier : t <= e.prev9At

RECURSIVE C24_SeededEma(_, _, _)
C24_SeededEma(closes, p, i) ==
  IF i = p THEN Frac(SumSeq(SubSeq(closes, 1, p)), p)
  ELSE LET e == C24_SeededEma(closes, p, i - 1)
       IN Frac(2 * closes[i] * e.den + (p - 1) * e.num, e.den * (p + 1))

\* the signals expected for the candles from..n of a series (1-based)
C24_Expected(candles, s, ind, tf, from) ==
  LET closes == [ i \in 1..Len(candles) |-> candles[i].close ]
  IN { [ stock_id |-> s, indicator_id |-> ind, timeframe |-> tf,
         timestamp |-> candles[i].timestamp,
         value |-> ToFixed6(C24_SeededEma(closes, PeriodOf(ind), i)) ] :
       i \in { j \in PeriodOf(ind)..Len(candles) : j >= from } }

\* the closes 1..9 with period 3 give the values 2..8 at the 0-based indices
\* 2..8 (values in millionths)
C24_Example ==
  \A i \in 3..9 :
    ComputeEMA([ k \in 1..i |-> k ], 3) = (i - 1) * 1000000

\* C24 as stated: on a first run of the indicator stage over the n candles it
\* takes of a pair (the latest NCandles at most), a signal is stored exactly for the candles p..n (1-based), with
\* the seeded EMA of the closes up to the candle as value, and the closes
\* 1..9 with p = 3 give 2..8
C24_FirstRunStoresAllSignals ==
  [][ ( lastRun'.stage = "compute_signals" /\ lastRun'.status = 200
        /\ now' = now )
      => /\ C24_Example
         /\ \A p \in GetStockTimeframePairs(ohlc_data, {}) :
            \A x \in 1..Len(IndicatorIds) :
              LET ind == IndicatorIds[x]
                  candles == LastN(SortAsc(Series(ohlc_data, p[1], p[2])),
                                   NCandles)
              IN ( /\ StateRows(processing_state, "compute_signals", p[1], p[2]) = {}
                   /\ SignalSeries(signals, p[1], ind, p[2]) = {} )
                 => SignalSeries(signals', p[1], ind, p[2])
                    = C24_Expected(candles, p[1], ind, p[2], 1)
    ]_vars

\* C24, amended: on a first run of the indicator stage over the n candles it
\* takes of a pair (the latest NCandles at most), the signals of the candles p..n (1-based) are computed with the
\* seeded EMA of the closes up to the candle as value, and the latest
\* MaxSignals of them are stored; the closes 1..9 with p = 3 give 2..8
C24_FirstRunStoresLatestSignals ==
  [][ ( lastRun'.stage = "compute_signals" /\ lastRun'.status = 200
        /\ now' = now )
      => /\ C24_Example
         /\ \A p \in GetStockTimeframePairs(ohlc_data, {}) :
            \A x \in 1..Len(IndicatorIds) :
              LET ind == IndicatorIds[x]
                  candles == LastN(SortAsc(Series(ohlc_data, p[1], p[2])),
                                   NCandles)
              IN ( /\ StateRows(processing_state, "compute_signals", p[1], p[2]) = {}
                   /\ SignalSeries(signals, p[1], ind, p[2]) = {} )
                 => SignalSeries(signals', p[1], ind, p[2])
                    = C24_Expected(candles, p[1], ind, p[2],
                                   Len(candles) - MaxSignals + 1)
    ]_vars

\* a first run over NCandles candles has stored the latest MaxSignals
\* short-period signals and the checkpoint
C24_Witness ==
  /\ lastRun.stage = "compute_signals"
  /\ lastRun.status = 200
  /\ Cardinality(Series(ohlc_data, 1, "5")) = NCandles
  /\ Cardinality(SignalSeries(signals, 1, Ema9Id, "5")) = MaxSignals
  /\ \E r \in StateRows(processing_state, "compute_signals", 1, "5") :
       /\ r.last_processed_timestamp = TrendTimes[NCandles - 1]
       /\ \E g \in SignalSeries(signals, 1, Ema9Id, "5") :
            g.timestamp = r.last_processed_timestamp

\* the open of the earliest of the k most recent session days up to the day
\* of instant t0, as IST wall time
C25_WindowStart(k, t0) ==
  LET today == IstDay(t0)
      d == CHOOSE e \in (today - 2 * k - 2)..today :
             /\ GetUTCDay(e) \notin {0, 6}
             /\ Cardinality({ x \in e..today : GetUTCDay(x) \notin {0, 6} }) = k
  IN d * MinutesPerDay + 9 * 60 + 15

\* C25: the start of the fetch range of a pair is, with no stored candle,
\* 09:15 of the earliest of the ceil(N / candles per session) most recent
\* session days; with a last timestamp t and ceil((now - t) / candle minutes)
\* <= N, t + 1 minute; and with more than N implied candles the same start
\* as with no stored candle (N is NCandles here and 210 in the helper's call)
C25_FetchRangeStart ==
  [][ ( lastRun'.stage = "fetch_ohlc" /\ now' = now ) =>
        /\ C25_WindowStart(3, now) = GetFromDateForNCandles(210, "5", now)
        /\ C25_WindowStart(30, now) = GetFromDateForNCandles(210, "60", now)
        /\ \A x \in lastRun'.pairs :
             x.fromDate # Null =>
               LET series == Series(ohlc_data, x.pair[1], x.pair[2])
                   t == Max({ c.timestamp : c \in series })
                   perSession == IF x.pair[2] = "5" THEN 75 ELSE 7
                   minutes == IF x.pair[2] = "5" THEN 5 ELSE 60
                   window == C25_WindowStart(CeilDiv(NCandles, perSession), now)
               IN x.fromDate = IF series = {} THEN window
                               ELSE IF CeilDiv(now - t, minutes) <= NCandles
                               THEN t + 1 + IstOffset
                               ELSE window
    ]_vars

\* a fetch run has asked the provider for the range that starts one minute
\* after the last stored candle of a pair
C25_Witness ==
  /\ lastRun.stage = "fetch_ohlc"
  /\ \E x \in lastRun.pairs :
       /\ x.fromDate # Null
       /\ \E c \in Series(ohlc_data, x.pair[1], x.pair[2]) :
            x.fromDate = c.timestamp + 1 + IstOffset

\* C26: while an aggregation run is in flight the strategy table holds
\* either the complete snapshot it held before the run or the complete new
\* one, never an empty or partly filled table
C26_RebuildAtomicForReader ==
  [][ ( lastRun'.stage = "populate_strategy_9_30_ema"
        /\ lastRun'.status = Null /\ lastRun.status # Null ) =>
        \/ strategy' = strategy
        \/ strategy' = lastRun'.pending
    ]_vars

\* C27: after a successful aggregation run the snapshot holds exactly one
\* row for every instrument that has a stored candle (and none for any
\* other), with the close and the timestamp of a most recent stored candle
\* of the instrument
C27_OneRowPerInstrumentLatestCandle ==
  [][ ( lastRun'.stage = "populate_strategy_9_30_ema"
        /\ lastRun'.status = 200 /\ now' = now ) =>
        /\ { r.stock_id : r \in strategy' } = { c.stock_id : c \in ohlc_data' }
        /\ \A s \in { c.stock_id : c \in ohlc_data' } :
             /\ Cardinality({ r \in strategy' : r.stock_id = s }) = 1
             /\ \A r \in { x \in strategy' : x.stock_id = s } :
                  \E c \in { x \in ohlc_data' : x.stock_id = s } :
                    /\ \A o \in { x \in ohlc_data' : x.stock_id = s } :
                         o.timestamp <= c.timestamp
                    /\ r.cmp = c.close
                    /\ r.cmp_timestamp = c.timestamp
    ]_vars

\* C28: after a successful aggregation run that rebuilt the snapshot, for
\* each row and each timeframe (5, 60) the published trend is the trend of
\* the most recent stored TrendRecord of the instrument and timeframe, and
\* the published crossover is the timestamp of the most recent stored
\* TrendRecord with a non-null crossover, over all stored TrendRecords
C28_LatestTrendAndCrossover ==
  [][ ( lastRun'.stage = "populate_strategy_9_30_ema"
        /\ lastRun'.status = 200 /\ now' = now
        /\ NewerThan(ohlc_data,
                     GetPipelineLastProcessedTimestamp(processing_state, {}))
             # {} ) =>
        \A r \in strategy' :
          \A tf \in {"5", "60"} :
            LET recs == { x \in ema_trend' :
                            x.stock_id = r.stock_id /\ x.timeframe = tf }
                crossed == { x \in recs : x.crossover # "null" }
                trend == IF tf = "5" THEN r.trend_5min ELSE r.trend_60min
                crossover == IF tf = "5" THEN r.crossover_5min
                             ELSE r.crossover_60min
            IN /\ recs # {} =>
                    \E x \in recs : /\ \A o \in recs : o.timestamp <= x.timestamp
                                    /\ trend = x.trend
               /\ crossed # {} =>
                    crossover = Max({ x.timestamp : x \in crossed })
    ]_vars

C30_ConfigErrorFailsStepOnly ==
  [][ now' = now =>
        /\ ( /\ lastRun'.stage = "compute_signals"
             /\ ( lastRun'.indicators = {} \/ ohlc_data = {} ) ) =>
               /\ lastRun'.status \notin 200..299
               /\ signals' = signals
               /\ processing_state' = processing_state
        /\ ( /\ lastRun'.stage = "pipeline"
             /\ ( lastRun'.indicators = {} \/ ohlc_data' = {} ) ) =>
               LET results == lastRun'.results
               IN /\ Len(results) = 4
                  /\ results[2].step = "compute_signals"
                  /\ ~ results[2].ok
                  /\ results[2].status \notin 200..299
                  /\ ~ lastRun'.success
                  /\ results[3].step = "compute_ema_trend"
                  /\ results[4].step = "populate_strategy_9_30_ema"
                  /\ signals' = signals
                  /\ { r \in processing_state' :
                         r.function_name = "compute_signals" }
                       = { r \in processing_state :
                             r.function_name = "compute_signals" }
    ]_vars

\* a pipeline run found stored candles with unprocessed closes but no active
\* EMA indicator: its indicator step failed with 404 and its aggregation
\* step still answered ok
C30_Witness ==
  /\ lastRun.stage = "pipeline"
  /\ lastRun.indicators = {}
  /\ ohlc_data # {}
  /\ signals = {}
  /\ Len(lastRun.results) = 4
  /\ lastRun.results[2].status = 404
  /\ lastRun.results[4].ok

\* C40: an aggregation run that finds no stored candle newer than the
\* pipeline-level checkpoint answers 200 and leaves the snapshot table as it
\* was: no row is deleted and none is inserted
C40_NoNewCandleLeavesSnapshot ==
  [][ ( /\ lastRun'.stage = "populate_strategy_9_30_ema"
        /\ now' = now
        /\ NewerThan(ohlc_data,
                     GetPipelineLastProcessedTimestamp(processing_state, {}))
             = {} ) =>
        /\ lastRun'.status = 200
        /\ strategy' = strategy
    ]_vars

\* an aggregation run has found stored candles, none of them newer than the
\* pipeline checkpoint, and a snapshot row that it kept
C40_Witness ==
  /\ lastRun.stage = "populate_strategy_9_30_ema"
  /\ lastRun.status = 200
  /\ ohlc_data # {}
  /\ strategy # {}
  /\ NewerThan(ohlc_data,
               GetPipelineLastProcessedTimestamp(processing_state, {})) = {}

\* C39: every checkpoint row the code has written carries the status
\* completed or failed, never pending or processing; the pipeline-level row
\* (pipeline, 0, global) therefore never has the status processing that the
\* status reader takes for a run in progress
C39_StatusCompletedOrFailed ==
  /\ \A r \in processing_state : r.status \in {"completed", "failed"}
  /\ \A r \in StateRows(processing_state, "pipeline", 0, "global") :
       r.status # "processing"

\* a pipeline run without success has written the pipeline-level row next to
\* the rows the indicator stage wrote
C39_Witness ==
  /\ lastRun.stage = "pipeline"
  /\ ~ lastRun.success
  /\ \E r \in StateRows(processing_state, "pipeline", 0, "global") :
       r.status = "failed" /\ r.last_processed_timestamp = now
  /\ \E r \in processing_state :
       r.function_name = "compute_signals" /\ r.status = "completed"

\* C38: a run of the ingestion, indicator or trend stage whose configuration
\* lookups succeed answers 200 also when calls made for a pair failed, and a
\* pipeline run in which only such calls failed lists four ok steps and
\* reports success
C38_PairFailuresKeepStageOk ==
  [][ now' = now =>
        /\ lastRun'.stage = "fetch_ohlc" => lastRun'.status = 200
        /\ ( lastRun'.stage \in {"compute_signals", "compute_ema_trend"}
             /\ ohlc_data # {} ) => lastRun'.status = 200
        /\ ( lastRun'.stage = "pipeline" /\ ohlc_data' # {} ) =>
             /\ lastRun'.success
             /\ Len(lastRun'.results) = 4
             /\ \A i \in 1..4 : lastRun'.results[i].status = 200
    ]_vars

\* a stage run has answered 200 although the one pair it worked on failed
C38_Witness ==
  /\ lastRun.stage \in {"fetch_ohlc", "compute_signals", "compute_ema_trend"}
  /\ lastRun.status = 200
  /\ lastRun.pairs # {}
  /\ \A x \in lastRun.pairs : x.result # "skipped" => x.failure
  /\ \E x \in lastRun.pairs : x.failure

\* C37: in a run of the indicator stage in which a call of the indicator
\* loop fails for one indicator of a pair, the failure is listed in the
\* errors of the pair (a pair listed without errors has the signals of a run
\* without failure), and the signals of the other indicator are computed,
\* upserted and pruned as in a run without failure
C37_IndicatorErrorListedOthersComputed ==
  [][ ( lastRun'.stage = "compute_signals" /\ lastRun'.status = 200
        /\ now' = now ) =>
        LET r == ComputeSignalsRun(ohlc_data, signals, processing_state, now, {})
            same(p, ind) == SignalSeries(signals', p[1], ind, p[2])
                            = SignalSeries(r.signals, p[1], ind, p[2])
        IN \A x \in lastRun'.pairs :
             /\ x.result = "ok" => same(x.pair, Ema9Id) /\ same(x.pair, Ema30Id)
             /\ same(x.pair, Ema9Id) \/ same(x.pair, Ema30Id)
    ]_vars

\* C33: after an ingestion run in which every provider and store call
\* succeeded, every bar the provider holds for a pair that is newer than the
\* pair's latest stored candle is stored, however often the ingestion stage
\* has run since the last pipeline run
C33_NewBarsPersisted ==
  [][ ( lastRun'.stage = "fetch_ohlc" /\ lastRun'.status = 200
        /\ now' = now ) =>
        \A p \in Pairs :
          LET series == Series(ohlc_data, p[1], p[2])
              newer == { b \in ProviderBars(p[2]) :
                           /\ b <= now
                           /\ series # {}
                           /\ \A c \in series : c.timestamp < b }
          IN \A b \in newer :
               \E c \in Series(ohlc_data', p[1], p[2]) : c.timestamp = b
    ]_vars

\* C34: when the candles of a pair are processed by two successive runs of
\* the indicator stage, a first batch and then the remaining candles as a
\* delta, the stored signals have the timestamps and values that a single
\* run over all those candles stores
C34_IncrementalEqualsOneShot ==
  [][ ( lastRun'.stage = "compute_signals" /\ lastRun.stage = "none"
        /\ now' = now ) =>
        \A i \in 1..Len(IndicatorIds) :
          SignalSeries(signals', 1, IndicatorIds[i], "5")
          = SignalSeries(ComputeSignalsRun(ohlc_data, {}, {}, now, {}).signals,
                         1, IndicatorIds[i], "5")
    ]_vars

\* the positions of a call in the log of a run
C36_At(log, call) == { i \in 1..Len(log) : log[i] = call }

C36_SignalWrites(log) ==
  C36_At(log, "upsertSignals") \cup C36_At(log, "pruneDelete")

\* C36: in a run of the indicator stage the checkpoint of a pair is read
\* exactly once, before any signal of the pair is written, and written at
\* most once, after the upserts and prunes of every indicator; a pair with
\* no new candle gets no checkpoint write and no signal write
C36_CheckpointReadOnceWrittenLast ==
  \A r \in { "signals1", "signals2" } :
    LET q == RunOf(r)
        reads == C36_At(q.log, "getProcessingState")
        writes == C36_At(q.log, "updateProcessingState")
        calls == C36_SignalWrites(q.log) \cup C36_At(q.log, "pruneQuery")
                   \cup C36_At(q.log, "existingSignals")
    IN /\ Cardinality(reads) <= 1
       /\ (q.pc = "done" \/ C36_SignalWrites(q.log) # {} \/ writes # {})
            => reads = {1}
       /\ Cardinality(writes) <= 1
       /\ \A w \in writes :
            /\ \A c \in calls : c < w
            /\ Cardinality(C36_At(q.log, "pruneQuery")) = Len(IndicatorIds)
            /\ q.pc = "done"
       /\ (q.pc = "done" /\ Len(q.newCandles) = 0)
            => writes = {} /\ C36_SignalWrites(q.log) = {}

\* a finished run that upserted and pruned signals and then wrote the
\* checkpoint, next to a finished run that found no new candle
C36_Witness ==
  /\ \E r \in { "signals1", "signals2" } :
       /\ RunOf(r).pc = "done"
       /\ C36_At(RunOf(r).log, "upsertSignals") # {}
       /\ C36_At(RunOf(r).log, "pruneDelete") # {}
       /\ C36_At(RunOf(r).log, "updateProcessingState") # {}
  /\ \E r \in { "signals1", "signals2" } :
       RunOf(r).pc = "done" /\ Len(RunOf(r).newCandles) = 0

\* C32: when two runs of the indicator stage overlap on a pair, the pair's
\* compute_signals checkpoint never moves to a timestamp earlier than one
\* it already held, however the reads and writes of the runs interleave
C32_OverlapKeepsCheckpointMonotone ==
  [][ \A r \in StateRows(processing_state, "compute_signals",
                         OverlapPair[1], OverlapPair[2]) :
        \A n \in StateRows(processing_state', "compute_signals",
                           OverlapPair[1], OverlapPair[2]) :
          r.last_processed_timestamp <= n.last_processed_timestamp
    ]_vars

\* C31: when two runs of the ingestion stage overlap on a pair, then however
\* their store calls interleave the candle table ends with one row per
\* conflict key and with the rows and values that a single run started on
\* the same tables would have stored (likewise the signal table for two
\* runs of the indicator stage)
C31_OverlapStoresWhatOneRunStores ==
  ( /\ RunOf("fetch1").pc = "done" /\ RunOf("fetch2").pc = "done"
    /\ RunOf("fetch1").base = RunOf("fetch2").base )
  => /\ \A a, b \in ohlc_data :
          ( /\ a.stock_id = b.stock_id /\ a.timeframe = b.timeframe
            /\ a.timestamp = b.timestamp ) => a = b
     /\ \E t \in ClockSet :
          /\ t <= now
          /\ Series(ohlc_data, OverlapPair[1], OverlapPair[2])
             = Series(FetchOhlcRun(RunOf("fetch1").base.ohlc,
                                   RunOf("fetch1").base.ps, t, {}).ohlc,
                      OverlapPair[1], OverlapPair[2])

\* the batch an item belongs to when the batches hold size items
C35_BatchOf(k, size) == (k - 1) \div size

\* C35: at any moment at most 5 instruments are being processed in the
\* ingestion stage and at most 10 pairs in the indicator and trend stages;
\* no item of a batch starts before every item of the previous batches has
\* finished; the ingestion stage sleeps between consecutive batches and not
\* after the last one, the other stages never sleep
C35_BoundedBatchesWithPacing ==
  LET b == lastRun.runs
      size == IF lastRun.stage = "fetch_ohlc" THEN 5 ELSE 10
      batches == { C35_BatchOf(k, size) : k \in 1..b.items }
      slept == { d \div size : d \in { b.delays[j] : j \in 1..Len(b.delays) } }
  IN /\ Cardinality(b.started \ b.finished) <= size
     /\ \A k \in b.started : \A j \in 1..b.items :
          C35_BatchOf(j, size) < C35_BatchOf(k, size) => j \in b.finished
     /\ Len(b.delays) = Cardinality(slept)
     /\ lastRun.stage # "fetch_ohlc" => slept = {}
     /\ lastRun.stage = "fetch_ohlc" =>
          /\ \A k \in b.started :
               \A x \in batches : x < C35_BatchOf(k, size) => x \in slept
          /\ \A x \in slept : x + 1 \in batches
          /\ b.pc = "done" => slept = { x \in batches : x + 1 \in batches }

\* an ingestion run of three batches that has responded, having slept
\* twice
C35_Witness ==
  /\ lastRun.stage = "fetch_ohlc"
  /\ lastRun.runs.pc = "done"
  /\ lastRun.runs.items > 10
  /\ Len(lastRun.runs.delays) = 2

====
